---------------------------- MODULE Spec2Model ----------------------------
(***************************************************************************)
(* A model of the execution core of go-llm (package ai): the retry engine  *)
(* (retry.go), the batch executor (batch.go), the response cache, the      *)
(* fallback loop of Builder.SendWithMeta and the streaming decoders of the *)
(* provider adapters.                                                      *)
(*                                                                         *)
(* Each component has its own specification (RetrySpec, BatchSpec, ...)    *)
(* over the shared variable list; the variables of the other components    *)
(* stay at their idle values.                                              *)
(*                                                                         *)
(* Strings whose characters the code inspects (error messages, the        *)
(* substrings of a retry policy) are sequences of one-character strings.   *)
(***************************************************************************)
EXTENDS Integers, Sequences, FiniteSets, TLC

VARIABLES
    \* ---- retry engine: one call of WithRetry(ctx, config, fn)
    policy,        \* the *RetryConfig handed to WithRetry (NilConfig or a record)
    op,            \* what fn does on each invocation
    ctx,           \* the caller's scope: "live", "canceled" or "deadline"
    rs,            \* WithRetry's own state: pc, attempt, lastErr, ret
    attempts,      \* how many times fn was invoked
    cancelFailAt,  \* value of attempts when fn first failed with a cancellation
    \* ---- batch executor: one call of BatchBuilder.Do
    bconf,         \* b.config: MaxConcurrency, StopOnError, Timeout > 0
    kinds,         \* what the request of each submitted builder does
    bmain,         \* Do itself: "waiting" in wg.Wait, "returned"
    gpc,           \* position of each goroutine
    stopped,       \* the stopped flag
    bctx,          \* the batch's shared scope ctx
    sem,           \* permits taken from the semaphore channel
    results,       \* the results slice
    acquired,      \* goroutines that took a permit
    ctxAtStart,    \* goroutines whose scope was already done when they took it
    failedOnce,    \* some request has failed
    notStartedAtFail, \* goroutines that had not taken a permit at the first failure
    bldrCtx,       \* the ctx field of each submitted builder
    \* ---- response cache: calls of the package-level Send
    Cache,         \* the process-wide caching switch
    cache,         \* the cache map, as a set of [k, v] entries with distinct k
    calls,         \* history: the Send calls and ClearCache calls made so far
    \* ---- fallback chain: one call of Builder.SendWithMeta
    fb,            \* the Builder: models, retry mode, validators; hooks registered
    fprov,         \* what client.provider.Send does for each model
    fctx,          \* the Builder's context
    fpc,           \* position of SendWithMeta
    fi,            \* index in models of the model being tried
    frs,           \* state of the WithRetry call of the current model
    fretries,      \* the closure's retries counter
    fattempt,      \* the legacy loop's attempt counter
    totalRetries,  \* totalRetries
    flastErr,      \* lastErr
    fmeta,         \* the *ResponseMeta returned
    sendLog,       \* history: the calls of client.provider.Send
    hookLog,       \* history: what the registered OnError hooks were handed
    \* ---- streaming decoder: one call of a provider's SendStream
    sshape,        \* the adapter: "openrouter", "ollama" or "anthropic"
    spc,           \* "read": in the read loop; "returned"; "failed"
    wire,          \* history: the lines the vendor has sent
    fullContent,   \* the strings.Builder fullContent
    chunks,        \* history: the strings handed to the callback
    sresp,         \* the *ProviderResponse returned
    \* ---- rate limiter: one TokenBucket shared by concurrent callers
    limiter,       \* how the bucket was made: unit, rate, capacity
    tokens,        \* tb.tokens, in 1/unit of a token
    lastRefill,    \* tb.lastRefill
    now,           \* the monotonic clock, in ticks
    callers,       \* each caller: idle, or asleep inside Wait until wakeAt
    grants,        \* history: the time of every call let through
    \* ---- backoff: the successive delays computed for one policy
    bkConfig,      \* the *RetryConfig handed to calculateBackoff
    bkAttempt,     \* the attempt number of the next computation
    bkLog,         \* history: each attempt's delay before jitter and returned
    \* ---- non-streaming adapter calls: Send of one provider
    aprov,         \* the adapter: "anthropic", "ollama" or "openrouter"
    alog,          \* history: each HTTP response and what Send returned for it
    \* ---- session statistics: the package's Stats and the values GetStats returned
    stats,         \* the struct behind the package's stats pointer; ModelUsage is a map reference, 0 for nil
    heap,          \* the maps allocated, by reference
    copies,        \* the Stats values GetStats returned, as their callers hold them
    slast,         \* the operation of the last step
    \* ---- the rate-limit gate in front of the provider calls: every entry point
    RateLimiter,   \* the package's RateLimiter is set (not nil)
    gate,          \* per goroutine: the entry point it runs, where it is, its Waits and provider calls so far
    \* ---- the process-wide Debug switch and the Builder requests in flight
    Debug,         \* the package's Debug switch
    callerDebug,   \* the value the caller last gave the switch
    dreq           \* per request in flight: b.debug, where SendWithMeta is, its oldDebug

retryVars == <<policy, op, ctx, rs, attempts, cancelFailAt>>

batchVars == <<bconf, kinds, bmain, gpc, stopped, bctx, sem, results, acquired,
               ctxAtStart, failedOnce, notStartedAtFail, bldrCtx>>

cacheVars == <<Cache, cache, calls>>

fallbackVars == <<fb, fprov, fctx, fpc, fi, frs, fretries, fattempt, totalRetries,
                  flastErr, fmeta, sendLog, hookLog>>

streamVars == <<sshape, spc, wire, fullContent, chunks, sresp>>

limiterVars == <<limiter, tokens, lastRefill, now, callers, grants>>

backoffVars == <<bkConfig, bkAttempt, bkLog>>

adapterVars == <<aprov, alog>>

statsVars == <<stats, heap, copies, slast>>

gateVars == <<RateLimiter, gate>>

debugVars == <<Debug, callerDebug, dreq>>

vars == <<retryVars, batchVars, cacheVars, fallbackVars, streamVars,
          limiterVars, backoffVars, adapterVars, statsVars, gateVars,
          debugVars>>

\* what an action of one component leaves alone
notRetry == <<batchVars, cacheVars, fallbackVars, streamVars, limiterVars,
          backoffVars, adapterVars, statsVars, gateVars, debugVars>>
notBatch == <<retryVars, cacheVars, fallbackVars, streamVars, limiterVars,
          backoffVars, adapterVars, statsVars, gateVars, debugVars>>
notCache == <<retryVars, batchVars, fallbackVars, streamVars, limiterVars,
          backoffVars, adapterVars, statsVars, gateVars, debugVars>>
notFallback == <<retryVars, batchVars, cacheVars, streamVars, limiterVars,
          backoffVars, adapterVars, statsVars, gateVars, debugVars>>
notStream == <<retryVars, batchVars, cacheVars, fallbackVars, limiterVars,
          backoffVars, adapterVars, statsVars, gateVars, debugVars>>
notLimiter == <<retryVars, batchVars, cacheVars, fallbackVars, streamVars,
          backoffVars, adapterVars, statsVars, gateVars, debugVars>>
notBackoff == <<retryVars, batchVars, cacheVars, fallbackVars, streamVars,
          limiterVars, adapterVars, statsVars, gateVars, debugVars>>
notAdapter == <<retryVars, batchVars, cacheVars, fallbackVars, streamVars,
          limiterVars, backoffVars, statsVars, gateVars, debugVars>>
notStats == <<retryVars, batchVars, cacheVars, fallbackVars, streamVars,
          limiterVars, backoffVars, adapterVars, gateVars, debugVars>>
notGate == <<retryVars, batchVars, cacheVars, fallbackVars, streamVars,
          limiterVars, backoffVars, adapterVars, statsVars, debugVars>>
notDebug == <<retryVars, batchVars, cacheVars, fallbackVars, streamVars,
          limiterVars, backoffVars, adapterVars, statsVars, gateVars>>

-----------------------------------------------------------------------------
(* Bounds of the model *)

\* MaxRetries values explored for the configurable presets: -1 .. MaxRetriesBound
MaxRetriesBound == 2

\* an operation fails up to MaxFailures times before it succeeds (or forever)
MaxFailures == 3

\* a batch holds 0 .. MaxOps builders, run under 1 .. MaxConc permits
MaxOps == 2

\* Send and ClearCache are called up to MaxCalls times in all
MaxCalls == 3

\* a fallback chain holds 1 .. MaxModels models (the primary and its fallbacks)
MaxModels == 2

\* a vendor sends up to MaxLines complete lines before the stream ends
MaxLines == 3

\* the clock of the rate limiter runs from 0 to MaxTime ticks
MaxTime == 4

\* callers 1 .. MaxCallers share the rate limiter
MaxCallers == 2
MaxAttempt == 4
MaxSends == 2
\* Builder requests in flight at the same time (the builders of a batch)
MaxInFlight == 3
\* provider calls one goroutine makes through the gate
MaxGateCalls == 3
\* requests tracked between two resets, Stats values held, maps allocated
MaxTracked == 2
MaxCopies == 2
MaxMaps == 2
RandSteps == 4
MaxConc == 2

-----------------------------------------------------------------------------
(* Strings *)

Digits == <<"0","1","2","3","4","5","6","7","8","9">>

IsDigit(c) == \E d \in 1..10 : Digits[d] = c

DigitVal(c) == (CHOOSE d \in 1..10 : Digits[d] = c) - 1

\* strings.ToLower on one character (the upper-case letters the model uses)
LowerChar(c) ==
    CASE c = "C" -> "c" [] c = "E" -> "e" [] c = "N" -> "n" [] c = "O" -> "o"
      [] c = "P" -> "p" [] c = "R" -> "r" [] c = "S" -> "s" [] c = "T" -> "t"
      [] OTHER -> c

\* strings.ToLower
ToLower(s) == [i \in 1..Len(s) |-> LowerChar(s[i])]

\* strings.Contains
Contains(s, sub) ==
    \E i \in 0..(Len(s) - Len(sub)) :
        \A j \in 1..Len(sub) : s[i + j] = sub[j]

\* strconv.Itoa for n >= 0
RECURSIVE Itoa(_)
Itoa(n) == IF n < 10 THEN <<Digits[n + 1]>>
           ELSE Itoa(n \div 10) \o <<Digits[(n % 10) + 1]>>

\* strconv.Atoi: [ok, val]; an optional sign followed by at least one digit
RECURSIVE DigitsVal(_)
DigitsVal(s) == IF Len(s) = 0 THEN 0
                ELSE 10 * DigitsVal(SubSeq(s, 1, Len(s) - 1)) + DigitVal(s[Len(s)])

Atoi(s) ==
    LET signed == Len(s) > 0 /\ s[1] \in {"+", "-"}
        body   == IF signed THEN Tail(s) ELSE s
    IN  IF Len(body) > 0 /\ \A i \in 1..Len(body) : IsDigit(body[i])
        THEN [ok |-> TRUE,
              val |-> IF signed /\ s[1] = "-" THEN 0 - DigitsVal(body) ELSE DigitsVal(body)]
        ELSE [ok |-> FALSE, val |-> 0]

-----------------------------------------------------------------------------
(* Errors *)

\* a nil error
NoErr == "nil"

\* context.Canceled and context.DeadlineExceeded, the values ctx.Err() returns
ErrCanceled == "context.Canceled"
ErrDeadlineExceeded == "context.DeadlineExceeded"

\* The error values an operation returns.  provider: the value is a
\* *ProviderError; code: its Code field; text: the rendered Error() string.
\* (ProviderError's Error() method lies outside the modelled files, so a
\* rendering that shows the code and one that does not are both listed.)
ErrorTable ==
    [pe429 |->
        [provider |-> TRUE, code |-> <<"4","2","9">>,
         text |-> <<"[","x","]"," ","4","2","9",":"," ","r","a","t","e"," ","l","i","m","i","t">>],
     pe503 |->
        [provider |-> TRUE, code |-> <<"5","0","3">>,
         text |-> <<"[","x","]"," ","u","n","a","v","a","i","l","a","b","l","e">>],
     pe400 |->
        [provider |-> TRUE, code |-> <<"4","0","0">>,
         text |-> <<"[","x","]"," ","4","0","0",":"," ","b","a","d"," ","r","e","q","u","e","s","t">>],
     pe400max |->
        [provider |-> TRUE, code |-> <<"4","0","0">>,
         text |-> <<"[","x","]"," ","m","a","x","_","t","o","k","e","n","s"," ","5","0","0","0">>],
     peKey |->
        [provider |-> TRUE, code |-> <<"b","a","d","_","k","e","y">>,
         text |-> <<"[","x","]"," ","i","n","v","a","l","i","d"," ","k","e","y">>],
     timeout |->
        [provider |-> FALSE, code |-> <<>>,
         text |-> <<"C","l","i","e","n","t",".","T","i","m","e","o","u","t"," ","e","x","c","e","e","d","e","d">>],
     boom |->
        [provider |-> FALSE, code |-> <<>>,
         text |-> <<"b","o","o","m">>],
     urlCanceled |->
        [provider |-> FALSE, code |-> <<>>,
         text |-> <<"P","o","s","t"," ",":","5","0","0","0","/","v","1",":"," ",
                    "c","o","n","t","e","x","t"," ","c","a","n","c","e","l","e","d">>],
     urlDeadline |->
        [provider |-> FALSE, code |-> <<>>,
         text |-> <<"P","o","s","t"," ",":","8","0","8","0","/","v","1",":"," ",
                    "c","o","n","t","e","x","t"," ","d","e","a","d","l","i","n","e"," ",
                    "e","x","c","e","e","d","e","d">>]]

SentinelText(e) ==
    IF e = ErrCanceled
    THEN <<"c","o","n","t","e","x","t"," ","c","a","n","c","e","l","e","d">>
    ELSE <<"c","o","n","t","e","x","t"," ","d","e","a","d","l","i","n","e"," ",
           "e","x","c","e","e","d","e","d">>

Sentinels == {ErrCanceled, ErrDeadlineExceeded}

\* errors an operation returns of its own accord
VendorErrs == {"pe429", "pe503", "pe400", "pe400max", "peKey", "timeout", "boom"}

\* errors an operation returns because its scope is done
CancelErrs == Sentinels \cup {"urlCanceled", "urlDeadline"}

\* err.Error()
ErrText(e) == IF e \in Sentinels THEN SentinelText(e) ELSE ErrorTable[e].text

\* err.(*ProviderError)
IsProviderError(e) == e \notin Sentinels /\ ErrorTable[e].provider

ErrCode(e) == ErrorTable[e].code

\* ctx.Err()
CtxErr(c) == CASE c = "canceled" -> ErrCanceled
               [] c = "deadline" -> ErrDeadlineExceeded
               [] OTHER -> NoErr

\* <-ctx.Done() is ready
CtxDone(c) == c # "live"

-----------------------------------------------------------------------------
(* Retry configuration (retry.go) *)

\* net/http status codes
StatusTooManyRequests == 429
StatusInternalServerError == 500
StatusBadGateway == 502
StatusServiceUnavailable == 503
StatusGatewayTimeout == 504

\* MaxRetries of DefaultRetryConfig, GentleRetryConfig, AggressiveRetryConfig
DefaultMaxRetries == 3
GentleMaxRetries == 3
AggressiveMaxRetries == 5

\* a nil *RetryConfig
NilConfig == [isNil |-> TRUE]

\* a float64 that is the ratio of two integers
Rat(n, d) == [num |-> n, den |-> d]

\* Durations (InitialDelay, MaxDelay) are counted in units of 100 ms.
DefaultRetryConfig ==
    [MaxRetries |-> DefaultMaxRetries,
     InitialDelay |-> 10, MaxDelay |-> 600,
     Multiplier |-> Rat(2, 1), Jitter |-> Rat(1, 10),
     RetryOnStatus |-> {StatusTooManyRequests, StatusInternalServerError, StatusBadGateway,
                        StatusServiceUnavailable, StatusGatewayTimeout},
     RetryOnErrors |->
        {<<"c","o","n","n","e","c","t","i","o","n"," ","r","e","s","e","t">>,
         <<"c","o","n","n","e","c","t","i","o","n"," ","r","e","f","u","s","e","d">>,
         <<"t","i","m","e","o","u","t">>,
         <<"t","e","m","p","o","r","a","r","y"," ","f","a","i","l","u","r","e">>,
         <<"r","a","t","e"," ","l","i","m","i","t">>,
         <<"o","v","e","r","l","o","a","d","e","d">>}]

AggressiveRetryConfig ==
    [MaxRetries |-> AggressiveMaxRetries,
     InitialDelay |-> 5, MaxDelay |-> 300,
     Multiplier |-> Rat(3, 2), Jitter |-> Rat(1, 5),
     RetryOnStatus |-> {StatusTooManyRequests, StatusInternalServerError, StatusBadGateway,
                        StatusServiceUnavailable, StatusGatewayTimeout},
     RetryOnErrors |->
        {<<"c","o","n","n","e","c","t","i","o","n"," ","r","e","s","e","t">>,
         <<"c","o","n","n","e","c","t","i","o","n"," ","r","e","f","u","s","e","d">>,
         <<"t","i","m","e","o","u","t">>,
         <<"t","e","m","p","o","r","a","r","y"," ","f","a","i","l","u","r","e">>,
         <<"r","a","t","e"," ","l","i","m","i","t">>,
         <<"o","v","e","r","l","o","a","d","e","d">>,
         <<"E","C","O","N","N","R","E","S","E","T">>}]

GentleRetryConfig ==
    [MaxRetries |-> GentleMaxRetries,
     InitialDelay |-> 20, MaxDelay |-> 1200,
     Multiplier |-> Rat(3, 1), Jitter |-> Rat(3, 20),
     RetryOnStatus |-> {StatusTooManyRequests, StatusServiceUnavailable},
     RetryOnErrors |->
        {<<"r","a","t","e"," ","l","i","m","i","t">>,
         <<"o","v","e","r","l","o","a","d","e","d">>}]

\* &RetryConfig{MaxRetries: 0}: every other field is its zero value
NoRetryConfig ==
    [MaxRetries |-> 0, InitialDelay |-> 0, MaxDelay |-> 0,
     Multiplier |-> Rat(0, 1), Jitter |-> Rat(0, 1),
     RetryOnStatus |-> {}, RetryOnErrors |-> {}]

\* (*RetryConfig).WithInitialDelay
WithInitialDelay(c, d) == [c EXCEPT !.InitialDelay = d]

\* (*RetryConfig).WithMaxDelay
WithMaxDelay(c, d) == [c EXCEPT !.MaxDelay = d]

\* (*RetryConfig).WithMultiplier
WithMultiplier(c, m) == [c EXCEPT !.Multiplier = m]

\* (*RetryConfig).WithJitter: j is brought into 0..1
WithJitter(c, j) ==
    [c EXCEPT !.Jitter = IF j.num < 0 THEN Rat(0, 1)
                         ELSE IF j.num > j.den THEN Rat(1, 1)
                         ELSE j]

\* (*RetryConfig).WithMaxRetries
WithMaxRetries(c, n) == [c EXCEPT !.MaxRetries = n]

\* (*RetryConfig).WithRetryOnError: appends substrings (given as the caller
\* wrote them; shouldRetry lower-cases them)
WithRetryOnError(c, subs) == [c EXCEPT !.RetryOnErrors = @ \cup subs]

\* a caller's policy that also retries deadline errors of a vendor
DeadlinePolicy(n) ==
    WithRetryOnError(WithMaxRetries(DefaultRetryConfig, n),
        {<<"D","e","a","d","l","i","n","e"," ","e","x","c","e","e","d","e","d">>})

\* shouldRetry: is the error worth another attempt under config?
shouldRetry(config, err) ==
    IF config = NilConfig \/ err = NoErr THEN FALSE
    ELSE
      LET errStr == ToLower(ErrText(err))
          byStatus ==
            \E status \in config.RetryOnStatus :
                \/ Contains(errStr, <<"[">> \o Itoa(status) \o <<"]">>)
                \/ Contains(errStr, <<"s","t","a","t","u","s"," ">> \o Itoa(status))
                \/ Contains(errStr, Itoa(status))
          bySubstr ==
            \E substr \in config.RetryOnErrors : Contains(errStr, ToLower(substr))
          byCode ==
            /\ IsProviderError(err)
            /\ Atoi(ErrCode(err)).ok
            /\ \E status \in config.RetryOnStatus : Atoi(ErrCode(err)).val = status
      IN  byStatus \/ bySubstr \/ byCode

-----------------------------------------------------------------------------
(* WithRetry (retry.go), as a transition function on its own state         *)
(*   pc      "entry": not yet called                                       *)
(*           "top": about to test ctx.Done() at the head of the loop body  *)
(*           "call": fn is running; "wait": in the backoff select          *)
(*           "done": returned                                              *)
(*   attempt the loop counter; lastErr; ret: what WithRetry returned       *)

NoRet == [kind |-> "none", wrapped |-> FALSE, n |-> 0, err |-> NoErr]

\* return result, nil
RetOk == [kind |-> "ok", wrapped |-> FALSE, n |-> 0, err |-> NoErr]

\* return zero, err
RetErr(e) == [kind |-> "err", wrapped |-> FALSE, n |-> 0, err |-> e]

\* return zero, fmt.Errorf("max retries (%d) exceeded: %w", config.MaxRetries, lastErr)
RetExhausted(config, lastErr) ==
    [kind |-> "err", wrapped |-> TRUE, n |-> config.MaxRetries, err |-> lastErr]

\* if config == nil { config = DefaultRetryConfig() }
EffectiveConfig(config) == IF config = NilConfig THEN DefaultRetryConfig ELSE config

\* the loop condition: attempt <= config.MaxRetries
LoopCondition(config, attempt) == attempt <= config.MaxRetries

\* a break one attempt early: the slip `attempt+1 >= config.MaxRetries`
AttemptsExhaustedEarly(config, attempt) == attempt + 1 >= config.MaxRetries

\* if attempt >= config.MaxRetries { break }
AttemptsExhausted(config, attempt) == attempt >= config.MaxRetries

\* entry: the loop is entered, or skipped when its condition fails at once
WithRetryBegin(config) ==
    LET c == EffectiveConfig(config)
    IN  IF LoopCondition(c, 0)
        THEN [pc |-> "top", attempt |-> 0, lastErr |-> NoErr, ret |-> NoRet]
        ELSE [pc |-> "done", attempt |-> 0, lastErr |-> NoErr,
              ret |-> RetExhausted(c, NoErr)]

\* a loop head that goes on to the attempt without looking at the scope
WithRetryTopUnchecked(st, c) == [st EXCEPT !.pc = "call"]

\* select { case <-ctx.Done(): return zero, ctx.Err(); default: }
WithRetryTop(st, c) ==
    IF CtxDone(c)
    THEN [st EXCEPT !.pc = "done", !.ret = RetErr(CtxErr(c))]
    ELSE [st EXCEPT !.pc = "call"]

\* fn returned err (NoErr: success)
WithRetryResult(st, config, err) ==
    LET c == EffectiveConfig(config)
    IN  IF err = NoErr THEN [st EXCEPT !.pc = "done", !.ret = RetOk]
        ELSE IF ~shouldRetry(c, err)
             THEN [st EXCEPT !.pc = "done", !.lastErr = err, !.ret = RetErr(err)]
        ELSE IF AttemptsExhausted(c, st.attempt)
             THEN [st EXCEPT !.pc = "done", !.lastErr = err,
                             !.ret = RetExhausted(c, err)]
        ELSE [st EXCEPT !.pc = "wait", !.lastErr = err]

\* case <-time.After(delay): the loop continues with attempt++
WithRetryWake(st, config) ==
    LET c == EffectiveConfig(config)
    IN  IF LoopCondition(c, st.attempt + 1)
        THEN [st EXCEPT !.pc = "top", !.attempt = @ + 1]
        ELSE [st EXCEPT !.pc = "done", !.attempt = @ + 1,
                        !.ret = RetExhausted(c, st.lastErr)]

\* case <-ctx.Done(): return zero, ctx.Err()   (in the backoff select)
WithRetryWaitCancelled(st, c) ==
    [st EXCEPT !.pc = "done", !.ret = RetErr(CtxErr(c))]


-----------------------------------------------------------------------------
(* The retry engine driven by a caller: RetrySpec *)

\* The policies a caller hands to WithRetry: nil, DefaultRetryConfig with
\* MaxRetries set (RetryWithBackoff(n), WithMaxRetries(n): any int, unchecked),
\* the same with a substring added, NoRetryConfig, GentleRetryConfig.
PolicyIds ==
    {[preset |-> "nil", n |-> 0], [preset |-> "none", n |-> 0],
     [preset |-> "gentle", n |-> GentleMaxRetries]}
    \cup {[preset |-> p, n |-> n] : p \in {"default", "deadline"},
                                    n \in (0 - 1)..MaxRetriesBound}

ConfigOf(p) ==
    CASE p.preset = "nil" -> NilConfig
      [] p.preset = "none" -> NoRetryConfig
      [] p.preset = "gentle" -> GentleRetryConfig
      [] p.preset = "deadline" -> DeadlinePolicy(p.n)
      [] OTHER -> WithMaxRetries(DefaultRetryConfig, p.n)

\* What fn does: it fails with err on its first `failures` invocations (on
\* every one when `always`) and then succeeds; once its scope is done it
\* ignores that ("ignore"), returns ctx.Err() itself ("ctxErr") or returns
\* the transport's error, whose text quotes the URL ("urlErr").
Ops ==
    {[err |-> e, failures |-> k, always |-> FALSE, onCancel |-> oc] :
        e \in VendorErrs, k \in 0..MaxFailures, oc \in {"ignore", "ctxErr", "urlErr"}}
    \cup
    {[err |-> e, failures |-> 0, always |-> TRUE, onCancel |-> oc] :
        e \in VendorErrs, oc \in {"ignore", "ctxErr", "urlErr"}}

\* the error of fn's k-th invocation (NoErr: success) under scope state c
OpOutcome(o, k, c) ==
    IF CtxDone(c) /\ o.onCancel # "ignore"
    THEN IF o.onCancel = "ctxErr" THEN CtxErr(c)
         ELSE IF c = "canceled" THEN "urlCanceled" ELSE "urlDeadline"
    ELSE IF o.always \/ k <= o.failures THEN o.err ELSE NoErr

\* the other components, not in use
BatchIdle ==
    /\ bconf = [MaxConcurrency |-> 1, StopOnError |-> FALSE, Timeout |-> FALSE,
                RetryConfig |-> FALSE]
    /\ bldrCtx = <<>>
    /\ kinds = <<>>
    /\ bmain = "off"
    /\ gpc = <<>>
    /\ stopped = FALSE
    /\ bctx = "live"
    /\ sem = 0
    /\ results = <<>>
    /\ acquired = {}
    /\ ctxAtStart = {}
    /\ failedOnce = FALSE
    /\ notStartedAtFail = {}

CacheIdle ==
    /\ Cache = FALSE
    /\ cache = {}
    /\ calls = <<>>

\* the error slot of a ResponseMeta: which model's call produced it (0: none)
\* and what that call returned
NoError == [by |-> 0, ret |-> NoRet]

NoMeta == [Content |-> <<>>, Error |-> NoError, Model |-> "", Retries |-> 0]

FallbackIdle ==
    /\ fb = [models |-> <<>>, mode |-> "none", n |-> 0, validators |-> "none",
             hooks |-> FALSE]
    /\ fprov = [kinds |-> <<>>, onCancel |-> "ignore"]
    /\ fctx = "live"
    /\ fpc = "off"
    /\ fi = 0
    /\ frs = [pc |-> "off", attempt |-> 0, lastErr |-> NoErr, ret |-> NoRet]
    /\ fretries = 0
    /\ fattempt = 0
    /\ totalRetries = 0
    /\ flastErr = NoError
    /\ fmeta = NoMeta
    /\ sendLog = <<>>
    /\ hookLog = <<>>

NoResponse ==
    [Content |-> <<>>, PromptTokens |-> 0, CompletionTokens |-> 0, TotalTokens |-> 0]

StreamIdle ==
    /\ sshape = "none"
    /\ spc = "off"
    /\ wire = <<>>
    /\ fullContent = <<>>
    /\ chunks = <<>>
    /\ sresp = NoResponse

LimiterIdle ==
    /\ limiter = [unit |-> 1, rate |-> 0, capacity |-> 0]
    /\ tokens = 0
    /\ lastRefill = 0
    /\ now = 0
    /\ callers = <<>>
    /\ grants = <<>>

BackoffIdle ==
    /\ bkConfig = NilConfig
    /\ bkAttempt = 0
    /\ bkLog = <<>>

AdapterIdle ==
    /\ aprov = "none"
    /\ alog = <<>>

StatsIdle ==
    /\ stats = [Requests |-> 0, TotalTokens |-> 0, ModelUsage |-> 0]
    /\ heap = <<>>
    /\ copies = <<>>
    /\ slast = "none"

GateIdle ==
    /\ RateLimiter = FALSE
    /\ gate = <<>>

DebugIdle ==
    /\ Debug = FALSE
    /\ callerDebug = FALSE
    /\ dreq = <<>>

RetryInit ==
    /\ DebugIdle
    /\ GateIdle
    /\ StatsIdle
    /\ AdapterIdle
    /\ BatchIdle
    /\ CacheIdle
    /\ FallbackIdle
    /\ StreamIdle
    /\ LimiterIdle
    /\ BackoffIdle
    /\ policy \in PolicyIds
    /\ op \in Ops
    /\ ctx \in {"live", "canceled", "deadline"}
    /\ rs = [pc |-> "entry", attempt |-> 0, lastErr |-> NoErr, ret |-> NoRet]
    /\ attempts = 0
    /\ cancelFailAt = 0

\* WithRetry is called
RetryBegin ==
    /\ rs.pc = "entry"
    /\ rs' = WithRetryBegin(ConfigOf(policy))
    /\ UNCHANGED <<policy, op, ctx, attempts, cancelFailAt>>
    /\ UNCHANGED notRetry

\* the caller cancels the scope, or its deadline passes
CancelScope ==
    /\ rs.pc \in {"top", "call", "wait"}
    /\ ctx = "live"
    /\ ctx' \in {"canceled", "deadline"}
    /\ UNCHANGED <<policy, op, rs, attempts, cancelFailAt>>
    /\ UNCHANGED notRetry

RetryTop ==
    /\ rs.pc = "top"
    /\ rs' = WithRetryTop(rs, ctx)
    /\ UNCHANGED <<policy, op, ctx, attempts, cancelFailAt>>
    /\ UNCHANGED notRetry

RetryCall ==
    /\ rs.pc = "call"
    /\ LET err == OpOutcome(op, attempts + 1, ctx)
       IN  /\ rs' = WithRetryResult(rs, ConfigOf(policy), err)
           /\ cancelFailAt' = IF err \in CancelErrs /\ cancelFailAt = 0
                              THEN attempts + 1 ELSE cancelFailAt
    /\ attempts' = attempts + 1
    /\ UNCHANGED <<policy, op, ctx>>
    /\ UNCHANGED notRetry

RetryWake ==
    /\ rs.pc = "wait"
    /\ rs' = WithRetryWake(rs, ConfigOf(policy))
    /\ UNCHANGED <<policy, op, ctx, attempts, cancelFailAt>>
    /\ UNCHANGED notRetry

RetryWaitCancelled ==
    /\ rs.pc = "wait"
    /\ CtxDone(ctx)
    /\ rs' = WithRetryWaitCancelled(rs, ctx)
    /\ UNCHANGED <<policy, op, ctx, attempts, cancelFailAt>>
    /\ UNCHANGED notRetry

RetryNext ==
    \/ RetryBegin
    \/ CancelScope
    \/ RetryTop
    \/ RetryCall
    \/ RetryWake
    \/ RetryWaitCancelled

RetrySpec == RetryInit /\ [][RetryNext]_vars

\* the policy in force
Cfg == EffectiveConfig(ConfigOf(policy))

\* fn fails on every invocation, with an error the policy classifies transient
AlwaysTransient == op.always /\ shouldRetry(Cfg, op.err)

\* fn fails (at least on its first invocation) with a non-transient error
FailsNonTransient == (op.always \/ op.failures >= 1) /\ ~shouldRetry(Cfg, op.err)

\* C1: with MaxRetries = N >= 0, an operation that fails with a transient error
\* on every call is never invoked more than N+1 times, and when WithRetry
\* returns (its scope not cancelled) it was invoked exactly N+1 times and the
\* exhaustion error is returned; with N = 0 that is exactly one invocation.
C1_TransientAttemptedNPlusOne ==
    (Cfg.MaxRetries >= 0 /\ AlwaysTransient) =>
        /\ attempts <= Cfg.MaxRetries + 1
        /\ (rs.pc = "done" /\ ctx = "live") =>
              /\ attempts = Cfg.MaxRetries + 1
              /\ rs.ret = RetExhausted(Cfg, op.err)

C1_Witness ==
    /\ rs.pc = "done" /\ ctx = "live" /\ AlwaysTransient
    /\ Cfg.MaxRetries = 2 /\ attempts = 3

\* C2 (as claimed): whatever MaxRetries is, an operation failing with a
\* non-transient error is invoked exactly once and WithRetry returns that
\* error unchanged.
C2_NonTransientOnce ==
    (rs.pc = "done" /\ ctx = "live" /\ FailsNonTransient) =>
        /\ attempts = 1
        /\ rs.ret = RetErr(op.err)

\* C3 (as claimed): once an attempt failed because the scope was cancelled or
\* timed out, no further attempt is made and WithRetry returns a cancellation
\* error as it is, not wrapped in another error, for every policy.
C3_CancellationVerbatim ==
    cancelFailAt > 0 =>
        /\ attempts = cancelFailAt
        /\ rs.pc = "done" =>
              /\ rs.ret.kind = "err"
              /\ ~rs.ret.wrapped
              /\ rs.ret.err \in CancelErrs


-----------------------------------------------------------------------------
(* BatchBuilder.Do (batch.go): BatchSpec *)

RetryIdle ==
    /\ policy = [preset |-> "nil", n |-> 0]
    /\ op = [err |-> "boom", failures |-> 0, always |-> FALSE, onCancel |-> "ignore"]
    /\ ctx = "live"
    /\ rs = [pc |-> "off", attempt |-> 0, lastErr |-> NoErr, ret |-> NoRet]
    /\ attempts = 0
    /\ cancelFailAt = 0

\* What the request of a builder does when sent: "ok" succeeds, "bad" fails
\* with an error of its own, "slow" returns only when its scope is done.
Kinds == {"ok", "bad", "slow"}

\* the submitted builders are numbered as in b.builders, from 0
Builders == DOMAIN kinds

\* bldr.model of the i-th builder
ModelOf(i) == <<"m0", "m1", "m2", "m3", "m4">>[i + 1]

\* the zero BatchResult
ZeroResult == [Index |-> 0, Content |-> "", Error |-> NoErr, Model |-> ""]

\* results := make([]BatchResult, len(b.builders))
MakeResults(n) == [i \in 0..(n - 1) |-> ZeroResult]

\* the BatchResult stored when the scope is done before a permit is free
CancelledResult(idx, c) ==
    [Index |-> idx, Content |-> "", Error |-> CtxErr(c), Model |-> ModelOf(idx)]

\* the BatchResult stored from meta := bldr.SendWithMeta()
SentResult(idx, meta) ==
    [Index |-> idx, Content |-> meta.Content, Error |-> meta.Error, Model |-> meta.Model]

\* The metas bldr.SendWithMeta() can return for builder i.  doneAtStart: the
\* scope was already done when the request began (the transport then fails
\* it at once); c: the shared scope now; timeout: a per-request deadline is
\* set, and may pass while the request is in flight.
SendMetas(i, kind, doneAtStart, c, timeout) ==
    LET fail(e) == [Content |-> "", Error |-> e, Model |-> ModelOf(i)]
        okMeta  == [Content |-> "ok", Error |-> NoErr, Model |-> ModelOf(i)]
        byScope == {fail(CtxErr(c)) : x \in {1} \cap (IF CtxDone(c) THEN {1} ELSE {})}
        byTimer == {fail(ErrDeadlineExceeded) : x \in {1} \cap (IF timeout THEN {1} ELSE {})}
    IN  IF doneAtStart THEN {fail(CtxErr(c))}
        ELSE CASE kind = "ok"  -> {okMeta} \cup byScope \cup byTimer
               [] kind = "bad" -> {fail("boom")}
               [] OTHER        -> byScope \cup byTimer

\* the batch configurations: RetryConfig tells whether WithRetry(config)
\* was given (the submitted builders have no retry config of their own).
\* Concurrency(n) raises n < 1 to 1; Config(config) installs the caller's
\* BatchConfig as it is, a MaxConcurrency of 0 included.
BatchConfigs ==
    [MaxConcurrency : 0..MaxConc, StopOnError : BOOLEAN, Timeout : BOOLEAN,
     RetryConfig : BOOLEAN]

\* The ctx field of a submitted builder after the goroutine's
\*   if b.config.RetryConfig != nil && bldr.retryConfig == nil { bldr = bldr.Clone(); ... }
\*   bldr.ctx = reqCtx
\* "own": what the caller gave it; "batch": the scope of Do; "request": the
\* per-request scope made by context.WithTimeout
AssignCtx(conf, own) ==
    IF conf.RetryConfig THEN own
    ELSE IF conf.Timeout THEN "request" ELSE "batch"

BatchInit ==
    /\ DebugIdle
    /\ GateIdle
    /\ StatsIdle
    /\ AdapterIdle
    /\ RetryIdle
    /\ CacheIdle
    /\ FallbackIdle
    /\ StreamIdle
    /\ LimiterIdle
    /\ BackoffIdle
    /\ bconf \in BatchConfigs
    /\ \E n \in 0..MaxOps : kinds \in [0..(n - 1) -> Kinds]
    /\ bmain = "waiting"
    /\ gpc = [i \in DOMAIN kinds |-> "start"]
    /\ stopped = FALSE
    /\ bctx = "live"
    /\ sem = 0
    /\ results = MakeResults(Cardinality(DOMAIN kinds))
    /\ acquired = {}
    /\ ctxAtStart = {}
    /\ failedOnce = FALSE
    /\ notStartedAtFail = {}
    /\ bldrCtx = [i \in DOMAIN kinds |-> "own"]

\* mu.Lock(); if stopped { mu.Unlock(); return }; mu.Unlock()
GoCheckStopped(i) ==
    /\ bmain = "waiting"
    /\ gpc[i] = "start"
    /\ gpc' = [gpc EXCEPT ![i] = IF stopped THEN "done" ELSE "acquire"]
    /\ UNCHANGED <<bconf, kinds, bmain, stopped, bctx, sem, results, acquired,
                   ctxAtStart, failedOnce, notStartedAtFail>>
    /\ UNCHANGED bldrCtx
    /\ UNCHANGED notBatch

\* a send on sem, a channel of capacity cap holding s permits, with nobody
\* ever receiving except the deferred releases: never blocked
PermitAlwaysFree(s, cap) == TRUE

\* a send on sem := make(chan struct{}, cap) can proceed while the buffer
\* holds fewer than cap permits
PermitFree(s, cap) == s < cap

\* the deferred release left out: the permit stays in the channel
ReleaseLeaked(s) == s

\* defer func() { <-sem }(): one permit leaves the channel when the
\* goroutine's function returns
Release(s) == s - 1

\* select { case sem <- struct{}{}: ... }
GoAcquire(i) ==
    /\ bmain = "waiting"
    /\ gpc[i] = "acquire"
    /\ PermitFree(sem, bconf.MaxConcurrency)
    /\ sem' = sem + 1
    /\ gpc' = [gpc EXCEPT ![i] = "run"]
    /\ acquired' = acquired \cup {i}
    /\ ctxAtStart' = IF CtxDone(bctx) THEN ctxAtStart \cup {i} ELSE ctxAtStart
    /\ UNCHANGED <<bconf, kinds, bmain, stopped, bctx, results, failedOnce,
                   notStartedAtFail>>
    /\ UNCHANGED bldrCtx
    /\ UNCHANGED notBatch

\* select { ... case <-ctx.Done(): results[idx] = BatchResult{...}; return }
GoAcquireCancelled(i) ==
    /\ bmain = "waiting"
    /\ gpc[i] = "acquire"
    /\ CtxDone(bctx)
    /\ results' = [results EXCEPT ![i] = CancelledResult(i, bctx)]
    /\ gpc' = [gpc EXCEPT ![i] = "done"]
    /\ UNCHANGED <<bconf, kinds, bmain, stopped, bctx, sem, acquired, ctxAtStart,
                   failedOnce, notStartedAtFail>>
    /\ UNCHANGED bldrCtx
    /\ UNCHANGED notBatch

\* bldr.SendWithMeta() returns: the result is stored, a failure under
\* StopOnError sets stopped and cancels the scope, the permit is released
GoRun(i) ==
    /\ bmain = "waiting"
    /\ gpc[i] = "run"
    /\ \E meta \in SendMetas(i, kinds[i], i \in ctxAtStart, bctx, bconf.Timeout) :
        LET failed == meta.Error # NoErr
            stop   == failed /\ bconf.StopOnError
        IN  /\ results' = [results EXCEPT ![i] = SentResult(i, meta)]
            /\ stopped' = IF stop THEN TRUE ELSE stopped
            /\ bctx' = IF stop /\ bctx = "live" THEN "canceled" ELSE bctx
            /\ failedOnce' = (failedOnce \/ failed)
            /\ notStartedAtFail' =
                  IF failed /\ ~failedOnce
                  THEN {j \in Builders : gpc[j] \in {"start", "acquire"}}
                  ELSE notStartedAtFail
    /\ sem' = Release(sem)
    /\ gpc' = [gpc EXCEPT ![i] = "done"]
    /\ UNCHANGED <<bconf, kinds, bmain, acquired, ctxAtStart>>
    /\ bldrCtx' = [bldrCtx EXCEPT ![i] = AssignCtx(bconf, @)]
    /\ UNCHANGED notBatch

\* the caller's context (WithContext) is cancelled, or its deadline passes
CancelBatchScope ==
    /\ bmain = "waiting"
    /\ bctx = "live"
    /\ \E i \in Builders : gpc[i] # "done"
    /\ bctx' \in {"canceled", "deadline"}
    /\ UNCHANGED <<bconf, kinds, bmain, gpc, stopped, sem, results, acquired,
                   ctxAtStart, failedOnce, notStartedAtFail>>
    /\ UNCHANGED bldrCtx
    /\ UNCHANGED notBatch

\* wg.Wait() returns; return results (the deferred cancel() runs)
BatchReturn ==
    /\ bmain = "waiting"
    /\ \A i \in Builders : gpc[i] = "done"
    /\ bmain' = "returned"
    /\ bctx' = IF bconf.StopOnError /\ bctx = "live" THEN "canceled" ELSE bctx
    /\ UNCHANGED <<bconf, kinds, gpc, stopped, sem, results, acquired, ctxAtStart,
                   failedOnce, notStartedAtFail>>
    /\ UNCHANGED bldrCtx
    /\ UNCHANGED notBatch

BatchNext ==
    \/ \E i \in Builders : GoCheckStopped(i)
    \/ \E i \in Builders : GoAcquire(i)
    \/ \E i \in Builders : GoAcquireCancelled(i)
    \/ \E i \in Builders : GoRun(i)
    \/ CancelBatchScope
    \/ BatchReturn

BatchSpec == BatchInit /\ [][BatchNext]_vars

\* C4 (as claimed): in a batch with stop-on-error, once some operation has
\* failed, every operation that had not yet begun its request ends with an
\* error in its result slot (its own or a cancellation error) when Do returns.
C4_StopOnErrorOthersFail ==
    (bmain = "returned" /\ bconf.StopOnError /\ failedOnce) =>
        \A i \in notStartedAtFail : results[i].Error # NoErr

\* C5 (as claimed): an operation that ended without ever taking a permit,
\* the shared scope being cancelled, has the cancellation error in its result
\* slot, which is not left as the zero value.
C5_UnpermittedSlotFilled ==
    \A i \in Builders :
        (gpc[i] = "done" /\ i \notin acquired /\ CtxDone(bctx)) =>
            /\ results[i] # ZeroResult
            /\ results[i].Error \in Sentinels

\* C6 (as claimed): Do returns as many results as builders were submitted and
\* the result at index i is that of the i-th builder: its Index field is i.
C6_ResultsPositional ==
    bmain = "returned" =>
        /\ DOMAIN results = Builders
        /\ \A i \in Builders : results[i].Index = i


-----------------------------------------------------------------------------
(* The response cache and the package-level Send: CacheSpec *)

\* opts.Temperature is a *float64: nil, or the address ptr of a float whose
\* JSON text is val ("NaN" for a value encoding/json refuses to encode)
NilTemp == [isNil |-> TRUE, ptr |-> 0, val |-> ""]
Temp(ptr, val) == [isNil |-> FALSE, ptr |-> ptr, val |-> val]

Msg(role, content) == [Role |-> role, Content |-> content]

\* a marshaller that encodes the pointer itself as well as the value it
\* points to (not what encoding/json does)
MarshalAddress(model, messages, opts) ==
    IF ~opts.Temperature.isNil /\ opts.Temperature.val = "NaN"
    THEN <<>>
    ELSE <<<<"m", <<model>>>>, <<"msgs", messages>>>>
         \o (IF opts.Temperature.isNil THEN <<>>
             ELSE <<<<"t", <<opts.Temperature.val>>, opts.Temperature.ptr>>>>)
         \o (IF opts.Thinking = "" THEN <<>> ELSE <<<<"r", <<opts.Thinking>>>>>>)

\* json.Marshal of the anonymous struct of cacheKey: fields m and msgs, then
\* t unless the pointer is nil and r unless the string is empty (omitempty);
\* on an unsupported value Marshal returns no data (the error is dropped)
Marshal(model, messages, opts) ==
    IF ~opts.Temperature.isNil /\ opts.Temperature.val = "NaN"
    THEN <<>>
    ELSE <<<<"m", <<model>>>>, <<"msgs", messages>>>>
         \o (IF opts.Temperature.isNil THEN <<>>
             ELSE <<<<"t", <<opts.Temperature.val>>>>>>)
         \o (IF opts.Thinking = "" THEN <<>> ELSE <<<<"r", <<opts.Thinking>>>>>>)

\* hex.EncodeToString(sha256.Sum256(data)), taken to be collision-free
Sum256Hex(data) == <<"sha256", data>>

cacheKey(model, messages, opts) == Sum256Hex(Marshal(model, messages, opts))

\* resp, ok := cache[key]
CacheHas(key) == \E e \in cache : e.k = key
CacheAt(key) == (CHOOSE e \in cache : e.k = key).v

\* getCached: [ok, resp]
getCached(model, messages, opts) ==
    IF ~Cache THEN [ok |-> FALSE, resp |-> ""]
    ELSE LET key == cacheKey(model, messages, opts)
         IN  IF CacheHas(key) THEN [ok |-> TRUE, resp |-> CacheAt(key)]
             ELSE [ok |-> FALSE, resp |-> ""]

\* a setCached that stores whatever the switch says
setCachedAlways(model, messages, opts, response) ==
    LET key == cacheKey(model, messages, opts)
    IN  {e \in cache : e.k # key} \cup {[k |-> key, v |-> response]}

\* setCached: the cache map afterwards
setCached(model, messages, opts, response) ==
    IF ~Cache THEN cache
    ELSE LET key == cacheKey(model, messages, opts)
         IN  {e \in cache : e.k # key} \cup {[k |-> key, v |-> response]}

\* CacheSize
CacheSize == Cardinality(cache)

\* the requests tried: a base request and variations of one field at a time
BaseMsgs == <<Msg("user", "hi")>>
LongMsgs == <<Msg("system", "be brief"), Msg("user", "hi")>>

Req(model, messages, temp, thinking) ==
    [model |-> model, messages |-> messages,
     opts |-> [Temperature |-> temp, Thinking |-> thinking]]

Requests ==
    { Req("gpt", BaseMsgs, NilTemp, ""),
      Req("claude", BaseMsgs, NilTemp, ""),
      Req("gpt", LongMsgs, NilTemp, ""),
      Req("gpt", BaseMsgs, Temp(1, "0"), ""),
      Req("gpt", BaseMsgs, Temp(2, "0"), ""),
      Req("gpt", BaseMsgs, NilTemp, "high") }

\* what client.provider.Send answers: a content, or an error
ProviderAnswers ==
    { [Content |-> "x", err |-> NoErr], [Content |-> "y", err |-> NoErr],
      [Content |-> "", err |-> "boom"] }

\* one entry of the history
SendEvent(req, content, err, invoked) ==
    [kind |-> "send", req |-> req, content |-> content, err |-> err,
     invoked |-> invoked, on |-> Cache]
ClearEvent ==
    [kind |-> "clear", req |-> Req("", <<>>, NilTemp, ""), content |-> "",
     err |-> NoErr, invoked |-> FALSE, on |-> Cache]

CacheInit ==
    /\ DebugIdle
    /\ GateIdle
    /\ StatsIdle
    /\ AdapterIdle
    /\ RetryIdle
    /\ BatchIdle
    /\ FallbackIdle
    /\ StreamIdle
    /\ LimiterIdle
    /\ BackoffIdle
    /\ Cache \in BOOLEAN
    /\ cache = {}
    /\ calls = <<>>

\* Send(model, messages, opt) answered from the cache
SendHit(req) ==
    /\ Len(calls) < MaxCalls
    /\ LET got == getCached(req.model, req.messages, req.opts)
       IN  /\ got.ok
           /\ calls' = Append(calls, SendEvent(req, got.resp, NoErr, FALSE))
    /\ UNCHANGED <<Cache, cache>>
    /\ UNCHANGED notCache

\* Send(model, messages, opt) going to the provider, which answers ans
SendMiss(req, ans) ==
    /\ Len(calls) < MaxCalls
    /\ ~getCached(req.model, req.messages, req.opts).ok
    /\ IF ans.err # NoErr
       THEN /\ cache' = cache
            /\ calls' = Append(calls, SendEvent(req, "", ans.err, TRUE))
       ELSE /\ cache' = setCached(req.model, req.messages, req.opts, ans.Content)
            /\ calls' = Append(calls, SendEvent(req, ans.Content, NoErr, TRUE))
    /\ UNCHANGED Cache
    /\ UNCHANGED notCache

\* the program assigns the Cache switch
SetCacheSwitch ==
    /\ Len(calls) < MaxCalls
    /\ Cache' = ~Cache
    /\ UNCHANGED <<cache, calls>>
    /\ UNCHANGED notCache

\* ClearCache()
ClearCache ==
    /\ Len(calls) < MaxCalls
    /\ cache' = {}
    /\ calls' = Append(calls, ClearEvent)
    /\ UNCHANGED Cache
    /\ UNCHANGED notCache

CacheNext ==
    \/ \E req \in Requests : SendHit(req)
    \/ \E req \in Requests, ans \in ProviderAnswers : SendMiss(req, ans)
    \/ SetCacheSwitch
    \/ ClearCache

CacheSpec == CacheInit /\ [][CacheNext]_vars

\* two requests with identical model, messages, temperature and reasoning
\* level (the temperatures may live at different addresses)
SameRequest(a, b) ==
    /\ a.model = b.model
    /\ a.messages = b.messages
    /\ a.opts.Temperature.isNil = b.opts.Temperature.isNil
    /\ a.opts.Temperature.val = b.opts.Temperature.val
    /\ a.opts.Thinking = b.opts.Thinking

\* call j repeats, with caching enabled, the request of the earlier call i,
\* which was made with caching enabled and returned a content; the cache was
\* not emptied in between
Repeats(i, j) ==
    /\ i < j
    /\ calls[i].kind = "send" /\ calls[j].kind = "send"
    /\ SameRequest(calls[i].req, calls[j].req)
    /\ calls[i].on /\ calls[j].on
    /\ calls[i].err = NoErr
    /\ \A k \in (i + 1)..(j - 1) : calls[k].kind # "clear"

\* C7: with caching enabled, a call that repeats the request of an earlier
\* completed call maps to the same cache key, returns the same content as
\* the earlier call and does not invoke the provider.
C7_RepeatServedFromCache ==
    \A i, j \in DOMAIN calls :
        Repeats(i, j) =>
            /\ cacheKey(calls[i].req.model, calls[i].req.messages, calls[i].req.opts)
                 = cacheKey(calls[j].req.model, calls[j].req.messages, calls[j].req.opts)
            /\ calls[j].err = NoErr
            /\ calls[j].content = calls[i].content
            /\ ~calls[j].invoked

\* a repeat whose temperature is an equal value at another address, served
\* from the cache after an unrelated call in between
C7_Witness ==
    /\ Len(calls) = 3
    /\ Repeats(1, 3)
    /\ calls[1].invoked /\ ~calls[3].invoked
    /\ calls[1].content = "y" /\ calls[3].content = "y"
    /\ calls[1].req.opts.Temperature.ptr # calls[3].req.opts.Temperature.ptr
    /\ calls[2].kind = "send" /\ calls[2].invoked
    /\ ~SameRequest(calls[1].req, calls[2].req)


-----------------------------------------------------------------------------
(* Builder.SendWithMeta and its fallback chain: FallbackSpec *)

ModelNames == <<"A", "B", "C", "D">>

\* models := append([]Model{b.model}, b.fallbacks...)
ModelLists == {SubSeq(ModelNames, 1, n) : n \in 1..MaxModels}

\* The retry set-up of the Builder: "smart" (retryConfig != nil, here
\* RetryWithBackoff(n)), "legacy" (Retry(n), n > 0) or "none".
RetryModes ==
    {[mode |-> "smart", n |-> n] : n \in (0 - 1)..2}
    \cup {[mode |-> "legacy", n |-> 1], [mode |-> "none", n |-> 0]}

\* b.validators: empty, a validator that accepts, a content filter, or a
\* validator that rejects
ValidatorSets == {"none", "pass", "filter", "reject"}

\* b.retryConfig of a "smart" Builder
BuilderRetryConfig(b) == WithMaxRetries(DefaultRetryConfig, b.n)

\* What the provider does with the requests for one model: it answers
\* ("ok"), fails once with a 429 and then answers ("flaky"), fails twice
\* with a 429 and then answers ("flaky2"), always fails with a 429 ("down")
\* or always fails with a 400 ("bad").
ModelKinds == {"ok", "flaky", "flaky2", "down", "bad"}

KindOp(kind, onCancel) ==
    CASE kind = "ok" ->
           [err |-> "pe429", failures |-> 0, always |-> FALSE, onCancel |-> onCancel]
      [] kind = "flaky" ->
           [err |-> "pe429", failures |-> 1, always |-> FALSE, onCancel |-> onCancel]
      [] kind = "flaky2" ->
           [err |-> "pe429", failures |-> 2, always |-> FALSE, onCancel |-> onCancel]
      [] kind = "down" ->
           [err |-> "pe429", failures |-> 0, always |-> TRUE, onCancel |-> onCancel]
      [] OTHER ->
           [err |-> "pe400", failures |-> 0, always |-> TRUE, onCancel |-> onCancel]

\* resp.Content of the provider's answer for the i-th model
ContentOf(i) == <<"answer", ModelNames[i]>>

\* the calls of provider.Send made so far for the i-th model
SendsTo(i) == Cardinality({k \in DOMAIN sendLog : sendLog[k].model = i})

\* r, e := client.provider.Send(ctx, req) for the i-th model: the error e
ProviderSend(i) ==
    OpOutcome(KindOp(fprov.kinds[i], fprov.onCancel), SendsTo(i) + 1, fctx)

\* runValidators: [content, err]
runValidators(validators, content) ==
    CASE validators = "filter" -> [content |-> <<"filtered">> \o content, err |-> NoErr]
      [] validators = "reject" -> [content |-> content, err |-> "invalid"]
      [] OTHER -> [content |-> content, err |-> NoErr]

\* invokeOnError(model, err): the hooks registered with OnError are handed it
invokeOnError(log, i, ret) ==
    IF fb.hooks /\ ret.kind = "err" THEN Append(log, [model |-> i, ret |-> ret]) ELSE log

\* a Model field that names the Builder's own model whichever model answered
MetaPrimaryModel(b, i) == b.models[1]

\* the Model field of the ResponseMeta of a call that went through
MetaModel(b, i) == b.models[i]

FallbackInit ==
    /\ DebugIdle
    /\ GateIdle
    /\ StatsIdle
    /\ AdapterIdle
    /\ RetryIdle
    /\ BatchIdle
    /\ CacheIdle
    /\ StreamIdle
    /\ LimiterIdle
    /\ BackoffIdle
    /\ \E ms \in ModelLists, rm \in RetryModes, v \in ValidatorSets, h \in BOOLEAN :
         /\ fb = [models |-> ms, mode |-> rm.mode, n |-> rm.n, validators |-> v,
                  hooks |-> h]
         /\ \E ks \in [1..Len(ms) -> ModelKinds], oc \in {"ignore", "urlErr"} :
              fprov = [kinds |-> ks, onCancel |-> oc]
    /\ fctx = "live"
    /\ fpc = "loop"
    /\ fi = 1
    /\ frs = [pc |-> "off", attempt |-> 0, lastErr |-> NoErr, ret |-> NoRet]
    /\ fretries = 0
    /\ fattempt = 0
    /\ totalRetries = 0
    /\ flastErr = NoError
    /\ fmeta = NoMeta
    /\ sendLog = <<>>
    /\ hookLog = <<>>

\* a lastErr that is set by the first failing model only
KeepFirstErr(prev, i, ret) == IF prev.by = 0 THEN [by |-> i, ret |-> ret] ELSE prev

\* lastErr = err, at the end of the loop body of a model that failed
KeepLastErr(prev, i, ret) == [by |-> i, ret |-> ret]

\* What follows the retry block of one model, which returned ret with
\* totalRetries at tr and the hooks' history at log: the validators and the
\* returned meta on success, lastErr = err and the next model otherwise.
Conclude(ret, tr, log) ==
    IF ret.kind = "ok"
    THEN LET v == runValidators(fb.validators, ContentOf(fi))
             verr == [by |-> fi, ret |-> RetErr(v.err)]
         IN  /\ fpc' = "done"
             /\ fmeta' = IF v.err # NoErr
                         THEN [Content |-> <<>>, Error |-> verr,
                               Model |-> fb.models[fi], Retries |-> tr]
                         ELSE [Content |-> v.content, Error |-> NoError,
                               Model |-> MetaModel(fb, fi), Retries |-> tr]
             /\ hookLog' = IF v.err # NoErr THEN invokeOnError(log, fi, verr.ret) ELSE log
             /\ UNCHANGED <<fi, flastErr>>
    ELSE /\ fpc' = "loop"
         /\ flastErr' = KeepLastErr(flastErr, fi, ret)
         /\ fi' = fi + 1
         /\ hookLog' = log
         /\ UNCHANGED fmeta

\* for _, model := range models: the next model is taken up, or the loop is
\* over and the failure meta is returned
FbLoop ==
    /\ fpc = "loop"
    /\ IF fi > Len(fb.models)
       THEN /\ fpc' = "done"
            /\ fmeta' = [Content |-> <<>>, Error |-> flastErr,
                         Model |-> fb.models[1], Retries |-> totalRetries]
            /\ UNCHANGED <<frs, fretries, fattempt>>
       ELSE /\ fpc' = fb.mode
            /\ frs' = IF fb.mode = "smart" THEN WithRetryBegin(BuilderRetryConfig(fb))
                      ELSE frs
            /\ fretries' = 0
            /\ fattempt' = 0
            /\ UNCHANGED fmeta
    /\ UNCHANGED <<fb, fprov, fctx, fi, totalRetries, flastErr, sendLog, hookLog>>
    /\ UNCHANGED notFallback

\* WithRetry tests ctx.Done() at the head of its loop
FbSmartTop ==
    /\ fpc = "smart" /\ frs.pc = "top"
    /\ frs' = WithRetryTop(frs, fctx)
    /\ UNCHANGED <<fb, fprov, fctx, fpc, fi, fretries, fattempt, totalRetries, flastErr,
                   fmeta, sendLog, hookLog>>
    /\ UNCHANGED notFallback

\* a count of every invocation of the closure, the first included
CountEveryAttempt(retries, total) == total + 1

\* retries++; if retries > 1 { totalRetries++ }: totalRetries after the
\* closure's invocation number `retries` for the current model
CountRetry(retries, total) == IF retries > 1 THEN total + 1 ELSE total

\* WithRetry runs the closure: the counters, the provider call, the hooks
FbSmartCall ==
    /\ fpc = "smart" /\ frs.pc = "call"
    /\ LET e == ProviderSend(fi)
       IN  /\ fretries' = fretries + 1
           /\ totalRetries' = CountRetry(fretries + 1, totalRetries)
           /\ sendLog' = Append(sendLog, [model |-> fi, err |-> e])
           /\ hookLog' = IF e # NoErr THEN invokeOnError(hookLog, fi, RetErr(e)) ELSE hookLog
           /\ frs' = WithRetryResult(frs, BuilderRetryConfig(fb), e)
    /\ UNCHANGED <<fb, fprov, fctx, fpc, fi, fattempt, flastErr, fmeta>>
    /\ UNCHANGED notFallback

\* the backoff of WithRetry elapses
FbSmartWake ==
    /\ fpc = "smart" /\ frs.pc = "wait"
    /\ frs' = WithRetryWake(frs, BuilderRetryConfig(fb))
    /\ UNCHANGED <<fb, fprov, fctx, fpc, fi, fretries, fattempt, totalRetries, flastErr,
                   fmeta, sendLog, hookLog>>
    /\ UNCHANGED notFallback

\* the backoff of WithRetry is cut short by ctx.Done()
FbSmartWaitCancelled ==
    /\ fpc = "smart" /\ frs.pc = "wait"
    /\ CtxDone(fctx)
    /\ frs' = WithRetryWaitCancelled(frs, fctx)
    /\ UNCHANGED <<fb, fprov, fctx, fpc, fi, fretries, fattempt, totalRetries, flastErr,
                   fmeta, sendLog, hookLog>>
    /\ UNCHANGED notFallback

\* WithRetry has returned: resp, err = ...
FbSmartReturn ==
    /\ fpc = "smart" /\ frs.pc = "done"
    /\ Conclude(frs.ret, totalRetries, hookLog)
    /\ UNCHANGED <<fb, fprov, fctx, frs, fretries, fattempt, totalRetries, sendLog>>
    /\ UNCHANGED notFallback

\* one pass of the legacy loop, from the provider call on: break on
\* success; after a failure either the loop ends, or its next pass begins
\* (totalRetries++) and sleeps in time.Sleep.  An attempt after the first
\* starts when that sleep has run its time: nothing else ends it.
FbLegacyCall ==
    /\ fpc \in {"legacy", "legacySleep"}
    /\ LET e == ProviderSend(fi)
           log == IF e # NoErr THEN invokeOnError(hookLog, fi, RetErr(e)) ELSE hookLog
       IN  /\ sendLog' = Append(sendLog, [model |-> fi, err |-> e])
           /\ IF e = NoErr
              THEN /\ Conclude(RetOk, totalRetries, log)
                   /\ UNCHANGED <<fattempt, totalRetries>>
              ELSE IF fattempt + 1 <= fb.n
              THEN /\ fattempt' = fattempt + 1
                   /\ totalRetries' = totalRetries + 1
                   /\ fpc' = "legacySleep"
                   /\ hookLog' = log
                   /\ UNCHANGED <<fi, flastErr, fmeta>>
              ELSE /\ Conclude(RetErr(e), totalRetries, log)
                   /\ UNCHANGED <<fattempt, totalRetries>>
    /\ UNCHANGED <<fb, fprov, fctx, frs, fretries>>
    /\ UNCHANGED notFallback

\* no retry: one provider call
FbPlainCall ==
    /\ fpc = "none"
    /\ LET e == ProviderSend(fi)
           log == IF e # NoErr THEN invokeOnError(hookLog, fi, RetErr(e)) ELSE hookLog
       IN  /\ sendLog' = Append(sendLog, [model |-> fi, err |-> e])
           /\ Conclude(IF e = NoErr THEN RetOk ELSE RetErr(e), totalRetries, log)
    /\ UNCHANGED <<fb, fprov, fctx, frs, fretries, fattempt, totalRetries>>
    /\ UNCHANGED notFallback

\* the Builder's context (WithContext) is cancelled while SendWithMeta runs
FbCancel ==
    /\ fpc \notin {"off", "done"}
    /\ fctx = "live"
    /\ fctx' = "canceled"
    /\ UNCHANGED <<fb, fprov, fpc, fi, frs, fretries, fattempt, totalRetries, flastErr,
                   fmeta, sendLog, hookLog>>
    /\ UNCHANGED notFallback

FallbackNext ==
    \/ FbLoop
    \/ FbSmartTop
    \/ FbSmartCall
    \/ FbSmartWake
    \/ FbSmartWaitCancelled
    \/ FbSmartReturn
    \/ FbLegacyCall
    \/ FbPlainCall
    \/ FbCancel

FallbackSpec == FallbackInit /\ [][FallbackNext]_vars

\* the provider has answered a call: k is the place of that call in sendLog
Succeeded(k) == k \in DOMAIN sendLog /\ sendLog[k].err = NoErr

\* C8 (amended): once SendWithMeta has returned after a provider call that
\* succeeded, the result reports the model of that call, no provider call was
\* made after it, the error of an earlier model is not the result's error,
\* and the content is the model's content as the Builder's validators leave
\* it: unchanged without validators, a filter's output, or none together
\* with the validation error when a validator rejects it.
C8_FirstSuccessWins ==
    \A k \in DOMAIN sendLog :
        (fpc = "done" /\ Succeeded(k)) =>
            LET w == sendLog[k].model
                v == runValidators(fb.validators, ContentOf(w))
            IN  /\ k = Len(sendLog)
                /\ \A j \in DOMAIN sendLog : sendLog[j].model <= w
                /\ fmeta.Model = fb.models[w]
                /\ fmeta.Error.by \in {0, w}
                /\ IF v.err = NoErr
                   THEN fmeta.Error = NoError /\ fmeta.Content = v.content
                   ELSE fmeta.Error = [by |-> w, ret |-> RetErr(v.err)]
                        /\ fmeta.Content = <<>>

\* model B answers after model A has failed for good, under a filter
C8_Witness ==
    /\ fpc = "done"
    /\ Len(fb.models) = 2
    /\ Succeeded(Len(sendLog)) /\ sendLog[Len(sendLog)].model = 2
    /\ \E j \in DOMAIN sendLog : sendLog[j].model = 1 /\ sendLog[j].err # NoErr
    /\ fmeta.Model = "B"
    /\ fmeta.Content = <<"filtered", "answer", "B">>

\* C8 (as claimed): the result reports the winning model and that model's
\* own content, without an error.
C8_WinnerContentReported ==
    \A k \in DOMAIN sendLog :
        (fpc = "done" /\ Succeeded(k)) =>
            /\ fmeta.Model = fb.models[sendLog[k].model]
            /\ fmeta.Content = ContentOf(sendLog[k].model)
            /\ fmeta.Error = NoError

\* every provider call failed and SendWithMeta has returned
AllFailed ==
    /\ fpc = "done"
    /\ sendLog # <<>>
    /\ \A k \in DOMAIN sendLog : sendLog[k].err # NoErr

\* the caller can get at an error of the i-th model: it is the one in the
\* result, or an OnError hook was handed it
Inspectable(i) ==
    \/ fmeta.Error.by = i
    \/ \E h \in DOMAIN hookLog : hookLog[h].model = i

\* C9 (as claimed): when every model of the chain has failed, an error of
\* each model that was called remains within the caller's reach.
C9_EarlierErrorsKept ==
    AllFailed => \A k \in DOMAIN sendLog : Inspectable(sendLog[k].model)


-----------------------------------------------------------------------------
(* The streaming decoders of the provider adapters: StreamSpec             *)
(* A line of the response body is held in parsed form:                     *)
(*   prefix   the trimmed line starts with "data: "                        *)
(*   sentinel what follows the prefix is [DONE]                            *)
(*   json     the payload is a JSON document of the expected types         *)
(*   type, dtype, text   "type", "delta.type" and "delta.text" (Anthropic) *)
(*   choices  the "delta.content" of each element of "choices" (OpenAI     *)
(*            shape), or the "text" of each part of the first candidate    *)
(*            (Gemini shape);                                              *)
(*            content, done, pcount, ecount: "message.content",            *)
(*            "done", "prompt_eval_count", "eval_count" (Ollama)           *)
(* Texts are sequences of characters.                                      *)

Hel == <<"H", "e", "l">>
Lo == <<"l", "o">>

Line(prefix, sentinel, json) ==
    [prefix |-> prefix, sentinel |-> sentinel, json |-> json, type |-> "",
     dtype |-> "", text |-> <<>>, choices |-> <<>>, content |-> <<>>,
     done |-> FALSE, pcount |-> 0, ecount |-> 0]

\* data: {"choices":[{"delta":{"content":...}}, ...]}
ChoicesLine(cs) == [Line(TRUE, FALSE, TRUE) EXCEPT !.choices = cs]

\* {"message":{"content":...},"done":...,"prompt_eval_count":..,"eval_count":..}
ChatLine(content, done, pc, ec) ==
    [Line(FALSE, FALSE, TRUE) EXCEPT !.content = content, !.done = done,
                                     !.pcount = pc, !.ecount = ec]

\* data: {"type":...,"delta":{"type":...,"text":...}}
EventLine(type, dtype, text) ==
    [Line(TRUE, FALSE, TRUE) EXCEPT !.type = type, !.dtype = dtype, !.text = text]

\* data: {"candidates":[{"content":{"parts":[{"text":...}, ...]}}]}
PartsLine(ps) == [Line(TRUE, FALSE, TRUE) EXCEPT !.choices = ps]

\* data: [DONE]
SentinelLine == Line(TRUE, TRUE, FALSE)

\* data: followed by something that is not the expected JSON
BrokenDataLine == Line(TRUE, FALSE, FALSE)

\* a blank line, an "event: ..." line, a comment
OtherLine == Line(FALSE, FALSE, FALSE)

\* what each vendor may send
LinesOf(shape) ==
    CASE shape = "openrouter" ->
           { ChoicesLine(<<Hel>>), ChoicesLine(<<Lo>>), ChoicesLine(<<<<>>>>),
             ChoicesLine(<<>>), ChoicesLine(<<Hel, Lo>>),
             SentinelLine, BrokenDataLine, OtherLine }
      [] shape = "google" ->
           { PartsLine(<<Hel>>), PartsLine(<<Lo>>), PartsLine(<<>>),
             PartsLine(<<Hel, Lo>>), BrokenDataLine, OtherLine }
      [] shape = "ollama" ->
           { ChatLine(Hel, FALSE, 0, 0), ChatLine(Lo, FALSE, 0, 0),
             ChatLine(<<>>, FALSE, 0, 0), ChatLine(<<>>, TRUE, 0, 0),
             ChatLine(Lo, TRUE, 2, 3), OtherLine, BrokenDataLine }
      [] OTHER ->
           { EventLine("content_block_delta", "text_delta", Hel),
             EventLine("content_block_delta", "text_delta", Lo),
             EventLine("content_block_delta", "input_json_delta", Lo),
             EventLine("message_start", "", <<>>),
             EventLine("message_stop", "", <<>>),
             EventLine("ping", "", <<>>),
             BrokenDataLine, OtherLine }

\* What one pass of the read loop does with a complete line: emit (write
\* text to fullContent and hand it to the callback), stop (break), and the
\* token counts taken from the line.
Handled(emit, text, stop, pc, ec) ==
    [emit |-> emit, text |-> text, stop |-> stop, pcount |-> pc, ecount |-> ec]

Skipped == Handled(FALSE, <<>>, FALSE, 0, 0)

\* a decoder that reads on past the [DONE] line
DecodeOpenRouterPastDone(line) ==
    IF ~line.prefix \/ line.sentinel \/ ~line.json THEN Skipped
    ELSE IF Len(line.choices) > 0 THEN Handled(TRUE, line.choices[1], FALSE, 0, 0)
    ELSE Skipped

\* OpenRouterProvider.SendStream
DecodeOpenRouter(line) ==
    IF ~line.prefix THEN Skipped
    ELSE IF line.sentinel THEN Handled(FALSE, <<>>, TRUE, 0, 0)
    ELSE IF ~line.json THEN Skipped
    ELSE IF Len(line.choices) > 0 THEN Handled(TRUE, line.choices[1], FALSE, 0, 0)
    ELSE Skipped

\* OllamaProvider.SendStream: the whole line is the JSON document
DecodeOllama(line) ==
    IF line.prefix \/ ~line.json THEN Skipped
    ELSE Handled(line.content # <<>>, line.content, line.done,
                 IF line.done THEN line.pcount ELSE 0,
                 IF line.done THEN line.ecount ELSE 0)

\* a decoder that gives up the loop at a payload it cannot parse
DecodeAnthropicStrict(line) ==
    IF ~line.prefix THEN Skipped
    ELSE IF ~line.json THEN Handled(FALSE, <<>>, TRUE, 0, 0)
    ELSE Handled(line.type = "content_block_delta" /\ line.dtype = "text_delta",
                 line.text, line.type = "message_stop", 0, 0)

\* AnthropicProvider.SendStream
DecodeAnthropic(line) ==
    IF ~line.prefix \/ line.sentinel \/ ~line.json THEN Skipped
    ELSE Handled(line.type = "content_block_delta" /\ line.dtype = "text_delta",
                 line.text, line.type = "message_stop", 0, 0)

\* GoogleProvider.SendStream: no line ends the loop
DecodeGoogle(line) ==
    IF ~line.prefix \/ ~line.json THEN Skipped
    ELSE IF Len(line.choices) > 0 THEN Handled(TRUE, line.choices[1], FALSE, 0, 0)
    ELSE Skipped

Decode(shape, line) ==
    CASE shape = "openrouter" -> DecodeOpenRouter(line)
      [] shape = "google" -> DecodeGoogle(line)
      [] shape = "ollama" -> DecodeOllama(line)
      [] OTHER -> DecodeAnthropic(line)

\* a callback that is handed every text twice
callbackTwice(got, str) == got \o <<str, str>>

\* callback(str): the caller's function receives str; got is what it has
\* received so far
callback(got, str) == Append(got, str)

\* a write that keeps only the newest text
WriteStringOver(buf, str) == str

\* fullContent.WriteString(str)
WriteString(buf, str) == buf \o str

\* the divisor of the token estimate: len(fullContent.String()) / 4
CharsPerToken == 4

\* the ProviderResponse built after the loop
StreamResponse(shape, content, pc, ec) ==
    IF shape = "ollama"
    THEN [Content |-> content, PromptTokens |-> pc, CompletionTokens |-> ec,
          TotalTokens |-> pc + ec]
    ELSE [Content |-> content, PromptTokens |-> 0,
          CompletionTokens |-> Len(content) \div CharsPerToken,
          TotalTokens |-> Len(content) \div CharsPerToken]

StreamInit ==
    /\ DebugIdle
    /\ GateIdle
    /\ StatsIdle
    /\ AdapterIdle
    /\ RetryIdle
    /\ BatchIdle
    /\ CacheIdle
    /\ FallbackIdle
    /\ LimiterIdle
    /\ BackoffIdle
    /\ sshape \in {"openrouter", "ollama", "anthropic", "google"}
    /\ spc = "read"
    /\ wire = <<>>
    /\ fullContent = <<>>
    /\ chunks = <<>>
    /\ sresp = NoResponse

\* reader.ReadBytes('\n') yields a complete line; one pass of the loop,
\* and the return that follows a break
StreamLine(line) ==
    /\ spc = "read"
    /\ Len(wire) < MaxLines
    /\ wire' = Append(wire, [nl |-> TRUE, line |-> line])
    /\ LET d == Decode(sshape, line)
           content == IF d.emit THEN WriteString(fullContent, d.text) ELSE fullContent
       IN  /\ fullContent' = content
           /\ chunks' = IF d.emit THEN callback(chunks, d.text) ELSE chunks
           /\ IF d.stop
              THEN /\ spc' = "returned"
                   /\ sresp' = StreamResponse(sshape, content, d.pcount, d.ecount)
              ELSE UNCHANGED <<spc, sresp>>
    /\ UNCHANGED sshape
    /\ UNCHANGED notStream

\* ReadBytes yields io.EOF with nothing pending: break, and the return
StreamEOF ==
    /\ spc = "read"
    /\ spc' = "returned"
    /\ sresp' = StreamResponse(sshape, fullContent, 0, 0)
    /\ UNCHANGED <<sshape, wire, fullContent, chunks>>
    /\ UNCHANGED notStream

\* the body ends in a line without its newline: ReadBytes yields that data
\* together with io.EOF, and the loop breaks on the error
StreamEOFInLine(line) ==
    /\ spc = "read"
    /\ wire' = Append(wire, [nl |-> FALSE, line |-> line])
    /\ spc' = "returned"
    /\ sresp' = StreamResponse(sshape, fullContent, 0, 0)
    /\ UNCHANGED <<sshape, fullContent, chunks>>
    /\ UNCHANGED notStream

\* ReadBytes fails otherwise (connection lost, scope done): return nil, err
StreamReadError ==
    /\ spc = "read"
    /\ spc' = "failed"
    /\ UNCHANGED <<sshape, wire, fullContent, chunks, sresp>>
    /\ UNCHANGED notStream

StreamNext ==
    \/ \E line \in LinesOf(sshape) : StreamLine(line)
    \/ StreamEOF
    \/ \E line \in LinesOf(sshape) : StreamEOFInLine(line)
    \/ StreamReadError

StreamSpec == StreamInit /\ [][StreamNext]_vars

RECURSIVE Joined(_)
\* the strings of a sequence, joined in order
Joined(strs) == IF strs = <<>> THEN <<>> ELSE Head(strs) \o Joined(Tail(strs))

\* C10: when a streaming call of any of the three adapters returns its
\* response, the chunks handed to the callback, joined in the order they
\* were delivered, are the response's content.
C10_ChunksJoinToContent ==
    spc = "returned" => Joined(chunks) = sresp.Content

\* the NDJSON adapter has delivered "Hel" and then "lo", the second on the
\* line that carries the done flag, and returned "Hello"
C10_Witness ==
    /\ spc = "returned"
    /\ sshape = "ollama"
    /\ chunks = <<Hel, Lo>>
    /\ sresp.Content = Hel \o Lo
    /\ wire[Len(wire)].line.done


-----------------------------------------------------------------------------
(* The token bucket rate limiter: LimiterSpec                              *)
(* Time is counted in ticks.  The float64 fields of the bucket are held as *)
(* exact multiples of 1/unit of a token: rate is the level gained per      *)
(* tick, capacity the highest level, and one request costs unit.           *)

\* NewLimiter(requests, interval), the interval being `ticks` ticks long
NewLimiter(requests, ticks) ==
    [unit |-> ticks, rate |-> requests, capacity |-> requests * ticks]

\* NewLimiterPerSecond(rps) for rps = num/den requests per tick:
\* capacity: rps * 2
NewLimiterPerSecond(num, den) ==
    [unit |-> den, rate |-> num, capacity |-> num * 2]

\* the limiters tried
Limiters ==
    { NewLimiter(1, 1), NewLimiter(1, 2), NewLimiter(2, 3), NewLimiter(3, 2),
      NewLimiterPerSecond(1, 1), NewLimiterPerSecond(1, 3) }

Min(a, b) == IF a <= b THEN a ELSE b

\* a refill that is not capped
RefillUncapped(tb, level, elapsed) == level + elapsed * tb.rate

\* tb.tokens += elapsed * tb.rate; if tb.tokens > tb.capacity { tb.tokens = tb.capacity }
Refill(tb, level, elapsed) == Min(level + elapsed * tb.rate, tb.capacity)

\* a test that lets a request through on any positive level
CanConsumeAny(tb, level) == level > 0

\* if tb.tokens >= 1.0
CanConsume(tb, level) == level >= tb.unit

\* a grant that leaves the token in the bucket
ConsumeNone(tb, level) == level

\* tb.tokens -= 1.0
Consume(tb, level) == level - tb.unit

\* Allow, called at time t with the bucket at (level, last): the answer and
\* the bucket afterwards
AllowAt(tb, level, last, t) ==
    LET filled == Refill(tb, level, t - last)
    IN  IF CanConsume(tb, filled)
        THEN [ok |-> TRUE, tokens |-> Consume(tb, filled), lastRefill |-> t]
        ELSE [ok |-> FALSE, tokens |-> filled, lastRefill |-> t]

\* waitTime := time.Duration((1.0 / tb.rate) * float64(time.Second)), in
\* ticks, rounded up: time.Sleep returns no sooner
WaitTime(tb) == (tb.unit + tb.rate - 1) \div tb.rate

Callers == 1..MaxCallers

LimiterInit ==
    /\ DebugIdle
    /\ GateIdle
    /\ StatsIdle
    /\ AdapterIdle
    /\ BackoffIdle
    /\ RetryIdle
    /\ BatchIdle
    /\ CacheIdle
    /\ FallbackIdle
    /\ StreamIdle
    /\ limiter \in Limiters
    /\ tokens = limiter.capacity
    /\ lastRefill = 0
    /\ now = 0
    /\ callers = [c \in Callers |-> [st |-> "idle", wakeAt |-> 0]]
    /\ grants = <<>>

\* a caller calls Allow()
Allow(c) ==
    /\ callers[c].st = "idle"
    /\ LET r == AllowAt(limiter, tokens, lastRefill, now)
       IN  /\ tokens' = r.tokens
           /\ lastRefill' = r.lastRefill
           /\ grants' = IF r.ok THEN Append(grants, now) ELSE grants
    /\ UNCHANGED <<limiter, now, callers>>
    /\ UNCHANGED notLimiter

\* one pass of the loop of Wait(): a caller that enters Wait, or wakes up
\* inside it, calls Allow; it returns on true and sleeps waitTime otherwise
WaitPass(c) ==
    /\ \/ callers[c].st = "idle"
       \/ callers[c].st = "asleep" /\ now >= callers[c].wakeAt
    /\ LET r == AllowAt(limiter, tokens, lastRefill, now)
       IN  /\ tokens' = r.tokens
           /\ lastRefill' = r.lastRefill
           /\ grants' = IF r.ok THEN Append(grants, now) ELSE grants
           /\ callers' = [callers EXCEPT ![c] =
                            IF r.ok THEN [st |-> "idle", wakeAt |-> 0]
                            ELSE [st |-> "asleep", wakeAt |-> now + WaitTime(limiter)]]
    /\ UNCHANGED <<limiter, now>>
    /\ UNCHANGED notLimiter

\* time passes
Tick ==
    /\ now < MaxTime
    /\ now' = now + 1
    /\ UNCHANGED <<limiter, tokens, lastRefill, callers, grants>>
    /\ UNCHANGED notLimiter

LimiterNext ==
    \/ \E c \in Callers : Allow(c)
    \/ \E c \in Callers : WaitPass(c)
    \/ Tick

LimiterSpec == LimiterInit /\ [][LimiterNext]_vars

\* the calls let through (Allow returning true, Wait returning) in [t1, t2]
GrantsWithin(t1, t2) ==
    Cardinality({k \in DOMAIN grants : t1 <= grants[k] /\ grants[k] <= t2})

\* C11: in every time window [t1, t2] the calls let through, by Allow or by
\* Wait and whichever caller made them, number at most
\* capacity + rate * (t2 - t1)  (both sides multiplied by unit).
C11_GrantsBoundedPerWindow ==
    \A t1, t2 \in 0..now :
        t1 <= t2 =>
            GrantsWithin(t1, t2) * limiter.unit
                <= limiter.capacity + limiter.rate * (t2 - t1)

\* a burst of capacity (3) at time 0, then exactly the refill: the bound
\* 3 + 3/2 * 2 = 6 is met with equality, while a caller that was refused
\* sleeps inside Wait
C11_Witness ==
    /\ limiter = NewLimiter(3, 2)
    /\ now = 2
    /\ GrantsWithin(0, 2) = 6
    /\ GrantsWithin(0, 0) = 3
    /\ \E c \in Callers : callers[c].st = "asleep"

\* C12: the token level is never above the capacity and never below zero.
C12_TokensWithinBounds ==
    /\ tokens <= limiter.capacity
    /\ tokens >= 0

\* a caller sleeps inside Wait, refused on a bucket that is short of one
\* token, after a refill that the cap cut down and calls that drained it
C12_Witness ==
    /\ tokens < limiter.unit
    /\ lastRefill >= 2
    /\ \E c \in Callers : callers[c].st = "asleep"
    /\ GrantsWithin(0, 0) = 0
    /\ GrantsWithin(2, now) * limiter.unit = limiter.capacity


-----------------------------------------------------------------------------
(* Further properties of the retry engine (RetrySpec) *)

\* WithRetry is at one of the two places where it looks at its scope: the
\* head of the loop, before an attempt, or the backoff wait
AtScopeCheck == rs.pc \in {"top", "wait"}

\* C13: once the scope is done while WithRetry is at the head of its loop or
\* in a backoff wait, no further attempt is started (fn is not invoked
\* again, whichever branch of the select wins) and what WithRetry returns is
\* the scope's own error, unwrapped.
C13_NoAttemptAfterScopeDone ==
    [][ (CtxDone(ctx) /\ AtScopeCheck) =>
            /\ attempts' = attempts
            /\ rs'.pc \in {"top", "wait", "done"}
            /\ rs'.pc = "done" => rs'.ret = RetErr(CtxErr(ctx)) ]_vars

\* the scope was cancelled during a backoff wait with attempts still to go,
\* and WithRetry has returned the cancellation error
C13_Witness ==
    /\ rs.pc = "done"
    /\ rs.ret = RetErr(ErrCanceled)
    /\ attempts = 1
    /\ rs.lastErr = "pe429"
    /\ Cfg.MaxRetries = 2
    /\ op.onCancel = "ignore" /\ op.always


-----------------------------------------------------------------------------
(* Further properties of SendWithMeta (FallbackSpec) *)

\* SendWithMeta is in a backoff wait between two attempts: the select of
\* WithRetry, or the time.Sleep of the legacy loop
InBackoff ==
    \/ fpc = "smart" /\ frs.pc = "wait"
    \/ fpc = "legacySleep"

\* C14 (as claimed): when the Builder's context is done during a backoff
\* wait, the wait is cut short, under every retry option: what follows the
\* wait is not another call of the provider.
C14_BackoffInterrupted ==
    [][ (CtxDone(fctx) /\ InBackoff) => sendLog' = sendLog ]_vars


-----------------------------------------------------------------------------
(* Further properties of Batch.Do (BatchSpec) *)

\* the operations that are executing their request: past the permit select,
\* their function not yet returned
Executing == {i \in Builders : gpc[i] = "run"}

\* C15: the permits held are exactly those of the operations that are
\* executing their request: a permit is taken before the call, given back
\* once when the operation is over (whatever its outcome), never given back
\* by an operation that took none, and none is held when Do has returned.
C15_PermitsAcquiredAndReleased ==
    /\ sem = Cardinality(Executing)
    /\ Executing \subseteq acquired
    /\ \A i \in Builders : (gpc[i] = "done" /\ results[i].Content = "ok") => i \in acquired
    /\ bmain = "returned" => sem = 0

\* Do has returned after one operation succeeded and another, which held a
\* permit too, ended with the cancellation error of the scope
C15_Witness ==
    /\ Builders = {0, 1}
    /\ bmain = "returned"
    /\ sem = 0
    /\ acquired = {0, 1}
    /\ results[0].Error = NoErr
    /\ results[0].Content = "ok"
    /\ results[1].Error = ErrCanceled
    /\ kinds[1] = "slow"

\* C16: at every moment of Do at most MaxConcurrency operations are
\* executing their request.
C16_ConcurrencyBounded == Cardinality(Executing) <= bconf.MaxConcurrency

\* with one permit, one operation executes while the other waits for it
C16_Witness ==
    /\ Builders = {0, 1}
    /\ bconf.MaxConcurrency = 1
    /\ gpc[0] = "acquire"
    /\ gpc[1] = "run"
    /\ sem = 1


-----------------------------------------------------------------------------
(* The error of an exhausted WithRetry (RetrySpec) *)

\* C17 (as claimed): when WithRetry returns because a retryable operation
\* used up its attempts, the error returned wraps the last error of the
\* operation and the number it reports is the number of attempts made.
C17_ExhaustedErrorReportsAttempts ==
    (rs.pc = "done" /\ rs.ret.wrapped /\ attempts > 0) =>
        /\ rs.ret.err = rs.lastErr
        /\ rs.ret.n = attempts


-----------------------------------------------------------------------------
(* The retry count of a Builder result (FallbackSpec) *)

\* the re-attempts among n calls of the provider for one model: the calls
\* beyond the first
ReAttempts(n) == IF n > 1 THEN n - 1 ELSE 0

RECURSIVE ReAttemptsUpTo(_)
\* the re-attempts made for the first k models of the chain
ReAttemptsUpTo(k) ==
    IF k = 0 THEN 0 ELSE ReAttemptsUpTo(k - 1) + ReAttempts(SendsTo(k))

\* C18: the Retries field of the ResponseMeta that SendWithMeta returns is
\* the number of provider calls beyond the first of each model, summed over
\* the models of the fallback chain.
C18_RetriesCountReAttempts ==
    fpc = "done" => fmeta.Retries = ReAttemptsUpTo(Len(fb.models))

\* the provider fails with 429 twice and then answers, under MaxRetries = 2:
\* success with Retries = 2
C18_Witness ==
    /\ fpc = "done"
    /\ fb.mode = "smart" /\ fb.n = 2
    /\ fb.models = <<"A">>
    /\ fprov.kinds[1] = "flaky2"
    /\ sendLog = <<[model |-> 1, err |-> "pe429"], [model |-> 1, err |-> "pe429"],
                   [model |-> 1, err |-> NoErr]>>
    /\ fmeta.Error = NoError
    /\ fmeta.Retries = 2

\* re-attempts for two models add up: one retry of A, which stays down, and
\* one of B, which then answers
C18_WitnessChain ==
    /\ fpc = "done"
    /\ Len(fb.models) = 2
    /\ SendsTo(1) = 2 /\ SendsTo(2) = 2
    /\ fmeta.Error = NoError
    /\ fmeta.Retries = 2


-----------------------------------------------------------------------------
(* calculateBackoff (retry.go): BackoffSpec *)
(* The float64 delay is kept exactly, as a whole number of 1/FullScale of  *)
(* the 100 ms unit.  time.Duration(delay) drops the fraction of a          *)
(* nanosecond, which no comparison with a whole number of units can see.   *)

RECURSIVE Pow(_, _)
\* math.Pow(b, e) for integers b and e >= 0; math.Pow(0, 0) is 1
Pow(b, e) == IF e = 0 THEN 1 ELSE b * Pow(b, e - 1)

\* the parts of one unit in which the delay before jitter is counted
BaseScale(c) == Pow(c.Multiplier.den, MaxAttempt)

\* the parts of one unit in which the returned delay is counted
FullScale(c) == BaseScale(c) * c.Jitter.den * RandSteps

\* float64(config.InitialDelay) * math.Pow(config.Multiplier, float64(attempt))
Exponential(c, attempt) ==
    c.InitialDelay * Pow(c.Multiplier.num, attempt)
                   * Pow(c.Multiplier.den, MaxAttempt - attempt)

\* the exponential delay with the cap at MaxDelay left out
UncappedDelay(c, attempt) == Exponential(c, attempt)

\* if delay > float64(config.MaxDelay) { delay = float64(config.MaxDelay) }:
\* the delay before jitter, in 1/BaseScale
CappedDelay(c, attempt) ==
    IF Exponential(c, attempt) > c.MaxDelay * BaseScale(c)
    THEN c.MaxDelay * BaseScale(c)
    ELSE Exponential(c, attempt)

\* if config.Jitter > 0 { jitterRange := delay * config.Jitter;
\*   jitter := (rand.Float64() * 2 * jitterRange) - jitterRange; delay += jitter }
\* with rand.Float64() = k / RandSteps; in 1/FullScale
WithJitterAdded(c, delay, k) ==
    IF c.Jitter.num > 0
    THEN delay * c.Jitter.den * RandSteps + delay * c.Jitter.num * (2 * k - RandSteps)
    ELSE delay * c.Jitter.den * RandSteps

\* calculateBackoff(config, attempt) with rand.Float64() = k / RandSteps:
\* [base: the delay before jitter (1/BaseScale), delay: the delay returned
\* (1/FullScale)].  A nil config gives time.Second.
calculateBackoff(config, attempt, k) ==
    IF config = NilConfig
    THEN [attempt |-> attempt, base |-> 10, delay |-> 10]
    ELSE LET capped == CappedDelay(config, attempt)
             jittered == WithJitterAdded(config, capped, k)
         IN  [attempt |-> attempt, base |-> capped,
              delay |-> IF jittered < 0
                        THEN config.InitialDelay * FullScale(config)
                        ELSE jittered]

\* the policies whose delays are computed: nil, the presets, and policies
\* made with the RetryConfig builder methods
BackoffPolicies ==
    {NilConfig, DefaultRetryConfig, AggressiveRetryConfig, GentleRetryConfig,
     NoRetryConfig,
     WithMaxDelay(DefaultRetryConfig, 30),
     WithJitter(WithMaxDelay(DefaultRetryConfig, 30), Rat(0, 1)),
     WithJitter(DefaultRetryConfig, Rat(3, 2)),
     WithMultiplier(DefaultRetryConfig, Rat(1, 1)),
     WithMultiplier(DefaultRetryConfig, Rat(1, 2)),
     WithInitialDelay(WithMaxDelay(DefaultRetryConfig, 5), 10)}

BackoffInit ==
    /\ DebugIdle
    /\ GateIdle
    /\ StatsIdle
    /\ AdapterIdle
    /\ RetryIdle
    /\ BatchIdle
    /\ CacheIdle
    /\ FallbackIdle
    /\ StreamIdle
    /\ LimiterIdle
    /\ bkConfig \in BackoffPolicies
    /\ bkAttempt = 0
    /\ bkLog = <<>>

\* delay := calculateBackoff(config, attempt), for attempt = 0, 1, 2, ... as
\* in the loop of WithRetry
Backoff(k) ==
    /\ bkAttempt <= MaxAttempt
    /\ bkLog' = Append(bkLog, calculateBackoff(bkConfig, bkAttempt, k))
    /\ bkAttempt' = bkAttempt + 1
    /\ UNCHANGED bkConfig
    /\ UNCHANGED notBackoff

BackoffNext == \E k \in 0..(RandSteps - 1) : Backoff(k)

BackoffSpec == BackoffInit /\ [][BackoffNext]_vars

\* C19 (as claimed): for every retry policy the delay before jitter never
\* gets smaller from one attempt to a later one.
C19_BackoffNonDecreasing ==
    \A i, j \in DOMAIN bkLog : i <= j => bkLog[i].base <= bkLog[j].base

-----------------------------------------------------------------------------
(* The error of an exhausted fallback chain (FallbackSpec) *)

\* SendWithMeta has returned after its loop went through every model
ChainExhausted == fpc = "done" /\ fi > Len(fb.models)

\* the provider calls made for the last model of the chain
LastModelCalls == {k \in DOMAIN sendLog : sendLog[k].model = Len(fb.models)}

\* C21: when every model of the chain has failed, the error in the result
\* is the one the last model of the chain ended with: what the retry block
\* of that model returned, which is the error of the last provider call
\* for that model unless the scope was done.
C21_LastModelErrorSurfaced ==
    ChainExhausted =>
        /\ fmeta.Error.by = Len(fb.models)
        /\ fmeta.Error.ret.kind = "err"
        /\ (fctx = "live" /\ LastModelCalls # {}) =>
              \E k \in LastModelCalls :
                  /\ \A j \in LastModelCalls : j <= k
                  /\ fmeta.Error.ret.err = sendLog[k].err

\* model A is down (429) and model B rejects the request (400): the result
\* carries B's error
C21_Witness ==
    /\ ChainExhausted
    /\ fb.models = <<"A", "B">>
    /\ \E k \in DOMAIN sendLog : sendLog[k].model = 1 /\ sendLog[k].err = "pe429"
    /\ fmeta.Error.by = 2
    /\ fmeta.Error.ret.err = "pe400"
    /\ fctx = "live"


-----------------------------------------------------------------------------
(* The non-streaming Send of the provider adapters: AdapterSpec            *)
(* An HTTP response is its status code and its body; the body is held in   *)
(* parsed form:                                                            *)
(*   json     the body is a JSON document that fits the result struct      *)
(*   error    the vendor's error envelope is present ("error" is set)      *)
(*   code, message   the envelope's code (Anthropic: "type") and message   *)
(*   content  the text of the answer; choices: the length of "choices"     *)
(*   text     the body as sent                                             *)

\* a vendor's answer
AnswerBody ==
    [json |-> TRUE, error |-> FALSE, code |-> "", message |-> "", content |-> "hi",
     choices |-> 1, text |-> "{answer}"]

\* a vendor's error envelope; Ollama's is a bare string without a code
EnvelopeBody(code, message) ==
    [json |-> TRUE, error |-> TRUE, code |-> code, message |-> message, content |-> "",
     choices |-> 0, text |-> "{error}"]

\* a JSON object that is neither: e.g. {} or {"detail": "..."} from a gateway
ObjectBody ==
    [json |-> TRUE, error |-> FALSE, code |-> "", message |-> "", content |-> "",
     choices |-> 0, text |-> "{}"]

\* a body that is not JSON, e.g. the HTML page of a proxy
HtmlBody ==
    [json |-> FALSE, error |-> FALSE, code |-> "", message |-> "", content |-> "",
     choices |-> 0, text |-> "<html>"]

Adapters == {"anthropic", "ollama", "openrouter"}

\* the envelopes of the adapter's vendor
Envelopes(p) ==
    IF p = "ollama"
    THEN {EnvelopeBody("", "model not found")}
    ELSE {EnvelopeBody(c, m) : c \in {"rate_limit_error", "invalid_request_error"},
                               m \in {"slow down", "bad request"}}

Bodies(p) == {AnswerBody, ObjectBody, HtmlBody} \cup Envelopes(p)

\* resp.StatusCode
Statuses == {200, 400, 429, 503}

\* return &ProviderResponse{Content: ...}, nil
SendOk(content) == [ok |-> TRUE, Code |-> "", Message |-> <<>>, Content |-> content]

\* return nil, &ProviderError{Code: code, Message: message}
SendErr(code, message) == [ok |-> FALSE, Code |-> code, Message |-> message, Content |-> ""]

\* json.Unmarshal failed: Message is
\* fmt.Sprintf("parse error: %v\nBody: %s", err, string(body))
ParseErr(body) == SendErr("", <<"parse error: ", "Body: ", body.text>>)

\* (*AnthropicProvider).parseResponse
AnthropicParseResponse(body) ==
    IF ~body.json THEN ParseErr(body)
    ELSE IF body.error THEN SendErr(body.code, <<body.message>>)
    ELSE SendOk(body.content)

\* (*OllamaProvider).parseResponse
OllamaParseResponse(body) ==
    IF ~body.json THEN ParseErr(body)
    ELSE IF body.error THEN SendErr("", <<body.message>>)
    ELSE SendOk(body.content)

\* (*OpenRouterProvider).parseResponse
OpenRouterParseResponse(body) ==
    IF ~body.json THEN ParseErr(body)
    ELSE IF body.error THEN SendErr(body.code, <<body.message>>)
    ELSE IF body.choices = 0 THEN SendErr("", <<"no response choices">>)
    ELSE SendOk(body.content)

\* Send, from resp, err := p.httpClient.Do(httpReq) with err == nil on:
\* respBody, err := io.ReadAll(resp.Body); return p.parseResponse(respBody).
\* resp.StatusCode is not looked at.
ProviderSendHTTP(p, status, body) ==
    CASE p = "anthropic" -> AnthropicParseResponse(body)
      [] p = "ollama" -> OllamaParseResponse(body)
      [] OTHER -> OpenRouterParseResponse(body)

AdapterInit ==
    /\ DebugIdle
    /\ GateIdle
    /\ StatsIdle
    /\ RetryIdle
    /\ BatchIdle
    /\ CacheIdle
    /\ FallbackIdle
    /\ StreamIdle
    /\ LimiterIdle
    /\ BackoffIdle
    /\ aprov \in Adapters
    /\ alog = <<>>

\* one call of Send that the vendor answers with the given status and body
AdapterSend(status, body) ==
    /\ Len(alog) < MaxSends
    /\ alog' = Append(alog, [status |-> status, body |-> body,
                             ret |-> ProviderSendHTTP(aprov, status, body)])
    /\ UNCHANGED aprov
    /\ UNCHANGED notAdapter

AdapterNext == \E status \in Statuses, body \in Bodies(aprov) : AdapterSend(status, body)

AdapterSpec == AdapterInit /\ [][AdapterNext]_vars

\* the status is 2xx
Is2xx(status) == status >= 200 /\ status <= 299

\* C22 (as claimed): a Send whose HTTP status is not 2xx, or whose body is
\* a vendor error envelope, returns a ProviderError, never a response; for
\* an envelope the error carries the envelope's code and message as sent.
C22_VendorErrorsSurface ==
    \A i \in DOMAIN alog :
        LET r == alog[i]
        IN  /\ (~Is2xx(r.status) \/ r.body.error) => ~r.ret.ok
            /\ r.body.error =>
                  r.ret.Code = r.body.code /\ r.ret.Message = <<r.body.message>>


-----------------------------------------------------------------------------
(* Further properties of the streaming decoders (StreamSpec) *)

\* the vendor has reported token counts: a line that ends the stream came
\* with counts that are not all zero
CountsReported ==
    \E k \in DOMAIN wire :
        /\ wire[k].nl
        /\ Decode(sshape, wire[k].line).stop
        /\ Decode(sshape, wire[k].line).pcount + Decode(sshape, wire[k].line).ecount > 0

\* C23 (as claimed): when a streaming call returns and the vendor has
\* reported no token counts, the response's token count is the estimate
\* made from the content: its length divided by CharsPerToken.
C23_TokenEstimatePresent ==
    (spc = "returned" /\ ~CountsReported) =>
        sresp.TotalTokens = Len(sresp.Content) \div CharsPerToken

\* the line is the vendor's terminal marker: data: [DONE], an object with
\* "done": true, or an event of type message_stop
IsMarker(shape, line) ==
    CASE shape = "openrouter" -> line.prefix /\ line.sentinel
      [] shape = "google" -> FALSE
      [] shape = "ollama" -> ~line.prefix /\ line.json /\ line.done
      [] OTHER -> line.prefix /\ line.json /\ line.type = "message_stop"

\* C24: a streaming decoder that has read a terminal marker has returned,
\* and the marker is the last line it read: no line after it is handed to
\* the callback or added to the content.  (The end of input without a
\* marker is a return as well: C24_WitnessEOF.)
C24_ReturnsAtMarker ==
    \A k \in DOMAIN wire :
        (wire[k].nl /\ IsMarker(sshape, wire[k].line)) =>
            /\ spc = "returned"
            /\ k = Len(wire)
            /\ sresp.Content = fullContent

\* "Hel", then message_stop: the decoder has returned "Hel"
C24_Witness ==
    /\ sshape = "anthropic"
    /\ Len(wire) = 2
    /\ IsMarker(sshape, wire[2].line)
    /\ spc = "returned"
    /\ chunks = <<Hel>>
    /\ sresp.Content = Hel

\* "Hel", "lo", then the end of input with no marker: the decoder has
\* returned "Hello"
C24_WitnessEOF ==
    /\ sshape = "openrouter"
    /\ Len(wire) = 2
    /\ \A k \in DOMAIN wire : wire[k].nl /\ ~IsMarker(sshape, wire[k].line)
    /\ spc = "returned"
    /\ sresp.Content = Hel \o Lo

\* the line's payload does not parse as the envelope the decoder expects
\* (json.Unmarshal fails)
IsMalformed(shape, line) ==
    CASE shape = "openrouter" -> line.prefix /\ ~line.sentinel /\ ~line.json
      [] shape = "ollama" -> ~line.json
      [] OTHER -> line.prefix /\ ~line.json     \* Anthropic and Google

\* C25: the step in which a decoder reads a malformed line leaves the call
\* where it was: still reading, with the callback sequence and the content
\* unchanged, so that everything after goes as if the line were absent.
C25_MalformedLineSkipped ==
    [][ \A l \in LinesOf(sshape) :
          (IsMalformed(sshape, l) /\ wire' = Append(wire, [nl |-> TRUE, line |-> l])) =>
              /\ spc' = "read"
              /\ chunks' = chunks
              /\ fullContent' = fullContent
              /\ sresp' = sresp ]_vars

\* "Hel", a malformed data line, "lo": the callback got "Hel" and "lo"
C25_Witness ==
    /\ sshape = "anthropic"
    /\ Len(wire) = 3
    /\ wire[2].nl /\ IsMalformed(sshape, wire[2].line)
    /\ chunks = <<Hel, Lo>>
    /\ fullContent = Hel \o Lo
    /\ spc = "returned"
    /\ sresp.Content = Hel \o Lo

RECURSIVE Deltas(_, _)
\* the text deltas of the complete lines of w, in the order of the lines
Deltas(shape, w) ==
    IF w = <<>> THEN <<>>
    ELSE LET d == Decode(shape, Head(w).line)
         IN  (IF Head(w).nl /\ d.emit THEN <<d.text>> ELSE <<>>) \o Deltas(shape, Tail(w))

\* C26: at every moment of a streaming call the callback has received the
\* text deltas of the lines read so far, one invocation for each, in the
\* order of the lines: nothing reordered, merged, repeated or left out.
C26_DeltasInArrivalOrder ==
    /\ chunks = Deltas(sshape, wire)
    /\ Len(chunks) <= Len(wire)

\* three lines with text have been read and delivered one by one
C26_Witness ==
    /\ sshape = "google"
    /\ Len(wire) = 3
    /\ chunks = <<Lo, Hel, Lo>>
    /\ spc = "read"


-----------------------------------------------------------------------------
(* The entry points that reach the provider, over one cache: ClientSpec    *)
(* Send (client.go), SendWithTools (client.go) and the Builder's streaming *)
(* calls share the process-wide cache of CacheSpec.  A vendor answers with *)
(* tool calls only a request that offers tools.                            *)

ClientRequests ==
    { Req("gpt", BaseMsgs, NilTemp, ""), Req("claude", BaseMsgs, NilTemp, "") }

\* what client.provider.Send answers a request that offers tools: tool
\* calls (with or without text), a plain content, or an error
ToolAnswers ==
    { [Content |-> "", tools |-> TRUE, err |-> NoErr],
      [Content |-> "t", tools |-> TRUE, err |-> NoErr],
      [Content |-> "x", tools |-> FALSE, err |-> NoErr],
      [Content |-> "", tools |-> FALSE, err |-> "boom"] }

\* the contents a streamed response may end with
StreamedContents == {"s", "x"}

\* one entry of the history made by SendWithTools or by a streaming call
CallEvent(kind, req, content, err) ==
    [kind |-> kind, req |-> req, content |-> content, err |-> err,
     invoked |-> TRUE, on |-> Cache]

\* a SendWithTools that stores the content it got, as Send does
SendWithToolsStoring(req, ans) ==
    IF ans.err = NoErr THEN setCached(req.model, req.messages, req.opts, ans.Content)
    ELSE cache

\* the cache after SendWithTools(model, messages, tools, opts): the function
\* calls neither getCached nor setCached
SendWithToolsCache(req, ans) == cache

ClientInit ==
    /\ DebugIdle
    /\ GateIdle
    /\ StatsIdle
    /\ AdapterIdle
    /\ RetryIdle
    /\ BatchIdle
    /\ FallbackIdle
    /\ StreamIdle
    /\ LimiterIdle
    /\ BackoffIdle
    /\ Cache \in BOOLEAN
    /\ cache = {}
    /\ calls = <<>>

\* SendWithTools(model, messages, tools, opts), which the provider answers ans
SendWithTools(req, ans) ==
    /\ Len(calls) < MaxCalls
    /\ cache' = SendWithToolsCache(req, ans)
    /\ calls' = Append(calls, CallEvent(IF ans.tools THEN "toolcalls" ELSE "tools",
                                        req, ans.Content, ans.err))
    /\ UNCHANGED Cache
    /\ UNCHANGED notCache

\* Builder.StreamResponse / StreamWithMeta: client.provider.SendStream is
\* called and its content returned; the cache is not involved
StreamCall(req, content) ==
    /\ Len(calls) < MaxCalls
    /\ calls' = Append(calls, CallEvent("stream", req, content, NoErr))
    /\ UNCHANGED <<Cache, cache>>
    /\ UNCHANGED notCache

\* what client.provider.Send answers a request of the Builder
BuilderAnswers == {[Content |-> "x", err |-> NoErr], [Content |-> "", err |-> "boom"]}

\* Builder.Send / Builder.SendWithMeta for a request with one model and no
\* retry, which the provider answers ans: the provider is called right away
\* (no getCached before it) and the content is returned (no setCached)
BuilderSend(req, ans) ==
    /\ Len(calls) < MaxCalls
    /\ calls' = Append(calls, CallEvent("builder", req, ans.Content, ans.err))
    /\ UNCHANGED <<Cache, cache>>
    /\ UNCHANGED notCache

ClientNext ==
    \/ \E req \in ClientRequests, ans \in BuilderAnswers : BuilderSend(req, ans)
    \/ \E req \in ClientRequests : SendHit(req)
    \/ \E req \in ClientRequests, ans \in ProviderAnswers : SendMiss(req, ans)
    \/ \E req \in ClientRequests, ans \in ToolAnswers : SendWithTools(req, ans)
    \/ \E req \in ClientRequests, content \in StreamedContents : StreamCall(req, content)
    \/ SetCacheSwitch
    \/ ClearCache

ClientSpec == ClientInit /\ [][ClientNext]_vars

\* call i was a whole, non-streaming call without tools that the provider
\* answered with a content while caching was enabled
WholeCall(i) ==
    /\ calls[i].kind = "send"
    /\ calls[i].invoked
    /\ calls[i].err = NoErr
    /\ calls[i].on

\* C27: every entry of the cache is the content of a whole, non-streaming
\* call made without tools, under the key of that call's request; a call
\* that offers tools and a streaming call always go to the provider, and
\* what a call is served from the cache is the content of such a whole call.
C27_OnlyWholeResponsesCached ==
    /\ \A e \in cache :
          \E i \in DOMAIN calls :
              /\ WholeCall(i)
              /\ e.k = cacheKey(calls[i].req.model, calls[i].req.messages, calls[i].req.opts)
              /\ e.v = calls[i].content
    /\ \A j \in DOMAIN calls :
          /\ calls[j].kind \in {"toolcalls", "tools", "stream"} => calls[j].invoked
          /\ (calls[j].kind = "send" /\ ~calls[j].invoked) =>
                \E i \in 1..(j - 1) :
                    /\ WholeCall(i)
                    /\ SameRequest(calls[i].req, calls[j].req)
                    /\ calls[j].content = calls[i].content

\* a call with tool calls in its answer and a streamed call, then the same
\* request through Send: the cache was empty for it and now holds its answer
C27_Witness ==
    /\ Len(calls) = 3
    /\ calls[1].kind = "toolcalls" /\ calls[1].content = "t" /\ calls[1].on
    /\ calls[2].kind = "stream" /\ calls[2].on
    /\ calls[3].kind = "send" /\ calls[3].invoked /\ calls[3].content = "y"
    /\ SameRequest(calls[1].req, calls[3].req)
    /\ SameRequest(calls[2].req, calls[3].req)
    /\ CacheSize = 1


-----------------------------------------------------------------------------
(* The cache switch                                                        *)

\* the step is a Send(model, messages, opt) made with the switch as it is
SendStep ==
    /\ Len(calls') = Len(calls) + 1
    /\ calls'[Len(calls')].kind = "send"

\* C28: while the Cache switch is off, a Send misses and goes to the
\* provider whatever the cache holds, and the content it gets is not
\* stored: the cache, and so CacheSize, is left as it was.
C28_DisabledCacheIsInert ==
    [][ (~Cache /\ SendStep) =>
            /\ calls'[Len(calls')].invoked
            /\ cache' = cache
            /\ CacheSize' = CacheSize ]_vars

\* an answer stored while the switch was on, the switch turned off, and the
\* same request sent again: it went to the provider, got another content,
\* and the cache still holds the first one
C28_Witness ==
    /\ Len(calls) = 2
    /\ ~Cache
    /\ calls[1].kind = "send" /\ calls[1].on /\ calls[1].invoked
    /\ calls[1].content = "x"
    /\ calls[2].kind = "send" /\ ~calls[2].on /\ calls[2].invoked
    /\ calls[2].content = "y"
    /\ SameRequest(calls[1].req, calls[2].req)
    /\ cache = {[k |-> cacheKey(calls[1].req.model, calls[1].req.messages, calls[1].req.opts),
                 v |-> "x"]}


-----------------------------------------------------------------------------
(* Further properties of the token bucket (LimiterSpec) *)

\* the level of the bucket at this moment, the refill since lastRefill added
LevelNow == Min(tokens + (now - lastRefill) * limiter.rate, limiter.capacity)

\* caller c leaves Wait in this step
WaitReturns(c) ==
    /\ callers[c].st = "asleep"
    /\ callers'[c].st = "idle"

\* C29: a caller leaves Wait only in a step that lets exactly one call
\* through, and every step that lets a call through finds a whole token in
\* the bucket and takes exactly that one out of it; so the token a waiter
\* returned on is gone for every other waiter.
C29_WaitTakesOneToken ==
    [][ /\ (\E c \in Callers : WaitReturns(c)) => Len(grants') = Len(grants) + 1
        /\ Len(grants') # Len(grants) =>
              /\ Len(grants') = Len(grants) + 1
              /\ LevelNow >= limiter.unit
              /\ tokens' = LevelNow - limiter.unit
              /\ Cardinality({c \in Callers : callers'[c] # callers[c]}) <= 1 ]_vars

\* one token per two ticks and a bucket of one: after the first call took
\* it, two callers waited; at time 2 the one new token let one of them
\* return and the other was refused and sleeps again
C29_Witness ==
    /\ limiter = NewLimiter(1, 2)
    /\ now = 2
    /\ grants = <<0, 2>>
    /\ tokens = 0
    /\ lastRefill = 2
    /\ callers[1] = [st |-> "idle", wakeAt |-> 0]
    /\ callers[2] = [st |-> "asleep", wakeAt |-> 4]


-----------------------------------------------------------------------------
(* Session statistics: StatsSpec                                           *)
(* A Go map is a reference: the Stats struct holds the reference, the heap *)
(* holds the entries.  A missing key reads as 0.                           *)

StatModels == {"gpt", "claude"}

\* the value a caller writes into a Stats it was given
Altered == 999

\* a map without entries
EmptyUsage == [m \in StatModels |-> 0]

\* &Stats{}
ZeroStats == [Requests |-> 0, TotalTokens |-> 0, ModelUsage |-> 0]

\* the entries of the map a Stats value refers to
UsageOf(s) == IF s.ModelUsage = 0 THEN EmptyUsage ELSE heap[s.ModelUsage]

\* what GetStats() returns, as its caller can read it: the counters and the
\* entries of ModelUsage
Read(s) ==
    [Requests |-> s.Requests, TotalTokens |-> s.TotalTokens, ModelUsage |-> UsageOf(s)]

\* the value GetStats() returns now
Returned == Read(stats)

StatsInit ==
    /\ DebugIdle
    /\ GateIdle
    /\ AdapterIdle
    /\ RetryIdle
    /\ BatchIdle
    /\ CacheIdle
    /\ FallbackIdle
    /\ StreamIdle
    /\ LimiterIdle
    /\ BackoffIdle
    /\ stats = ZeroStats
    /\ heap = <<>>
    /\ copies = <<>>
    /\ slast = "none"

\* trackRequest(meta) with meta.Model = m and meta.Tokens = tok
trackRequest(m, tok) ==
    /\ stats.Requests < MaxTracked
    /\ stats.ModelUsage = 0 => Len(heap) < MaxMaps
    /\ LET ref == IF stats.ModelUsage = 0 THEN Len(heap) + 1 ELSE stats.ModelUsage
           made == IF stats.ModelUsage = 0 THEN Append(heap, EmptyUsage) ELSE heap
       IN  /\ heap' = [made EXCEPT ![ref][m] = @ + 1]
           /\ stats' = [Requests |-> stats.Requests + 1,
                        TotalTokens |-> stats.TotalTokens + tok,
                        ModelUsage |-> ref]
    /\ slast' = "track"
    /\ UNCHANGED copies
    /\ UNCHANGED notStats

\* GetStats(): return *stats, a copy of the struct, the map reference in it
GetStats ==
    /\ Len(copies) < MaxCopies
    /\ copies' = Append(copies, stats)
    /\ slast' = "get"
    /\ UNCHANGED <<stats, heap>>
    /\ UNCHANGED notStats

\* the caller assigns a counter of the value it holds: s.Requests = 999
SetCopyField(i) ==
    /\ copies[i].Requests # Altered
    /\ copies' = [copies EXCEPT ![i].Requests = Altered]
    /\ slast' = "setfield"
    /\ UNCHANGED <<stats, heap>>
    /\ UNCHANGED notStats

\* the caller assigns an entry of the map of the value it holds:
\* s.ModelUsage[m] = 999 (on a nil map the assignment panics)
SetCopyUsage(i, m) ==
    /\ copies[i].ModelUsage # 0
    /\ heap[copies[i].ModelUsage][m] # Altered
    /\ heap' = [heap EXCEPT ![copies[i].ModelUsage][m] = Altered]
    /\ slast' = "setusage"
    /\ UNCHANGED <<stats, copies>>
    /\ UNCHANGED notStats

\* ResetStats(): stats = &Stats{}
ResetStats ==
    /\ slast # "reset"
    /\ stats' = ZeroStats
    /\ slast' = "reset"
    /\ UNCHANGED <<heap, copies>>
    /\ UNCHANGED notStats

StatsNext ==
    \/ \E m \in StatModels, tok \in {0, 100} : trackRequest(m, tok)
    \/ GetStats
    \/ \E i \in 1..MaxCopies : i <= Len(copies) /\ SetCopyField(i)
    \/ \E i \in 1..MaxCopies, m \in StatModels : i <= Len(copies) /\ SetCopyUsage(i, m)
    \/ ResetStats

StatsSpec == StatsInit /\ [][StatsNext]_vars

\* C30: a step in which a caller modifies a Stats value it got from
\* GetStats, a counter or an entry of the per-model usage map, leaves what
\* GetStats returns as it was.
C30_CopyIsolated ==
    [][ slast' \in {"setfield", "setusage"} => Returned' = Returned ]_vars

\* the part of C30 about the counters: assigning a counter of a returned
\* value leaves what GetStats returns as it was
C30_CountersIsolated ==
    [][ slast' = "setfield" => Returned' = Returned ]_vars

\* a request was tracked, GetStats returned, and its caller has set
\* Requests of the value it holds to 999: the package still counts 1
C30_WitnessCounters ==
    /\ slast = "setfield"
    /\ Len(copies) = 1
    /\ copies[1].Requests = Altered
    /\ Returned.Requests = 1
    /\ Returned.ModelUsage["gpt"] = 1


-----------------------------------------------------------------------------
(* Further properties of Builder.SendWithMeta (FallbackSpec) *)

\* the classifier of the retry engine, under the defaults every retry
\* option of the Builder starts from, deems the error not transient
NonTransient(e) == e # NoErr /\ ~shouldRetry(DefaultRetryConfig, e)

\* the provider calls for the i-th model that failed with such an error
NonTransientSends(i) ==
    {k \in DOMAIN sendLog : sendLog[k].model = i /\ NonTransient(sendLog[k].err)}

\* C31: whichever retry option the Builder has (Retry(n), RetryWithBackoff
\* or RetryConfig), a provider call that failed with an error the classifier
\* deems non-transient is not repeated: each model has at most one such call.
C31_NonTransientSentOnce ==
    \A i \in 1..Len(fb.models) : Cardinality(NonTransientSends(i)) <= 1


-----------------------------------------------------------------------------
(* The classifier on vendor-reported errors (RetrySpec) *)

\* the code of a vendor-reported error is one of the statuses of config
CodeInSet(config, err) ==
    /\ Atoi(ErrCode(err)).ok
    /\ Atoi(ErrCode(err)).val \in config.RetryOnStatus

\* the error's message carries "[N]" or "status N" for a status N of config
NamesTransientStatus(config, err) ==
    \E status \in config.RetryOnStatus :
        \/ Contains(ToLower(ErrText(err)), <<"[">> \o Itoa(status) \o <<"]">>)
        \/ Contains(ToLower(ErrText(err)), <<"s","t","a","t","u","s"," ">> \o Itoa(status))

\* fn fails with a vendor-reported error whose code is outside the set and
\* whose message names no status of the set
OutsideTransientSet ==
    /\ op.always \/ op.failures >= 1
    /\ IsProviderError(op.err)
    /\ ~CodeInSet(Cfg, op.err)
    /\ ~NamesTransientStatus(Cfg, op.err)

\* C32: an operation that fails with a vendor-reported error whose code is
\* outside the configured transient set, and whose message carries no
\* bracketed or worded form of a transient status, is not retried: it is
\* invoked at most once.
C32_CodeOutsideSetNotRetried ==
    (OutsideTransientSet /\ ctx = "live") => attempts <= 1


-----------------------------------------------------------------------------
(* The Builder and the cache (ClientSpec) *)

\* call j is a Builder request that repeats, with caching enabled, the
\* Builder request of the earlier call i, which was made with caching
\* enabled and returned a content; the cache was not emptied in between
BuilderRepeats(i, j) ==
    /\ i < j
    /\ calls[i].kind = "builder" /\ calls[j].kind = "builder"
    /\ SameRequest(calls[i].req, calls[j].req)
    /\ calls[i].on /\ calls[j].on
    /\ calls[i].err = NoErr
    /\ \A k \in (i + 1)..(j - 1) : calls[k].kind # "clear"

\* C33: with caching enabled, a Builder request that repeats an earlier
\* completed Builder request is answered from the cache, without a provider
\* call.
C33_BuilderRepeatFromCache ==
    \A i, j \in DOMAIN calls :
        BuilderRepeats(i, j) =>
            /\ ~calls[j].invoked
            /\ calls[j].content = calls[i].content


-----------------------------------------------------------------------------
(* The rate-limit gate in front of every provider call: GateSpec           *)
(* Each entry point of the package that reaches a provider is a goroutine  *)
(* that, for every provider call it makes, first runs waitForRateLimit().  *)

\* The entry points and whether one run of them may call the provider
\* again: SendWithMeta with RetryConfig/RetryWithBackoff ("smart", the
\* closure handed to WithRetry), with Retry(n) ("legacy") and without retry
\* ("none", one call per fallback model); Send and SendWithTools;
\* StreamResponse, by SendStream or by its non-streaming fallback;
\* StreamWithMeta; embeddings; text-to-speech and speech-to-text.
EntryPoints ==
    { [name |-> "smart", repeats |-> TRUE], [name |-> "legacy", repeats |-> TRUE],
      [name |-> "none", repeats |-> TRUE], [name |-> "Send", repeats |-> FALSE],
      [name |-> "SendWithTools", repeats |-> FALSE],
      [name |-> "StreamResponse", repeats |-> FALSE],
      [name |-> "StreamResponseFallback", repeats |-> FALSE],
      [name |-> "StreamWithMeta", repeats |-> FALSE],
      [name |-> "Embed", repeats |-> FALSE], [name |-> "TextToSpeech", repeats |-> FALSE],
      [name |-> "SpeechToText", repeats |-> FALSE] }

Goroutines == {1, 2}

\* a gate that never waits
waitForRateLimitNever(set, waits) == waits

\* waitForRateLimit(): if RateLimiter != nil { RateLimiter.Wait() }; the
\* number of Waits made on the limiter afterwards
waitForRateLimit(set, waits) == IF set THEN waits + 1 ELSE waits

GateInit ==
    /\ DebugIdle
    /\ StatsIdle
    /\ AdapterIdle
    /\ RetryIdle
    /\ BatchIdle
    /\ CacheIdle
    /\ FallbackIdle
    /\ StreamIdle
    /\ LimiterIdle
    /\ BackoffIdle
    /\ RateLimiter \in BOOLEAN
    /\ gate = [g \in Goroutines |->
                 [entry |-> "", repeats |-> FALSE, pc |-> "idle", waits |-> 0, calls |-> 0]]

\* a goroutine enters an entry point and comes to its first provider call
GateEnter(g, e) ==
    /\ gate[g].pc = "idle"
    /\ gate[g].calls < MaxGateCalls
    /\ gate' = [gate EXCEPT ![g].entry = e.name, ![g].repeats = e.repeats, ![g].pc = "gate"]
    /\ UNCHANGED RateLimiter
    /\ UNCHANGED notGate

\* waitForRateLimit() returns: the statement before the provider call
GateWait(g) ==
    /\ gate[g].pc = "gate"
    /\ gate' = [gate EXCEPT ![g].waits = waitForRateLimit(RateLimiter, @), ![g].pc = "call"]
    /\ UNCHANGED RateLimiter
    /\ UNCHANGED notGate

\* the provider call is made and returns; an entry point with retries or
\* fallback models comes to its next provider call (again) or returns
GateCall(g, again) ==
    /\ gate[g].pc = "call"
    /\ again => gate[g].repeats /\ gate[g].calls + 1 < MaxGateCalls
    /\ gate' = [gate EXCEPT ![g].calls = @ + 1,
                            ![g].pc = IF again THEN "gate" ELSE "idle"]
    /\ UNCHANGED RateLimiter
    /\ UNCHANGED notGate

GateNext ==
    \/ \E g \in Goroutines, e \in EntryPoints : GateEnter(g, e)
    \/ \E g \in Goroutines : GateWait(g)
    \/ \E g \in Goroutines, again \in BOOLEAN : GateCall(g, again)

GateSpec == GateInit /\ [][GateNext]_vars

\* C34: with a limiter set, every goroutine has made exactly one Wait for
\* each provider call it has made, plus the one for the call it is about to
\* make; with no limiter set, no Wait is ever made.
C34_OneWaitPerProviderCall ==
    \A g \in Goroutines :
        /\ RateLimiter =>
              gate[g].waits = gate[g].calls + (IF gate[g].pc = "call" THEN 1 ELSE 0)
        /\ ~RateLimiter => gate[g].waits = 0

\* with a limiter set, a Retry(n) request has made its third provider call
\* after three Waits, while another goroutine has waited and is about to
\* call the embeddings endpoint
C34_Witness ==
    /\ RateLimiter
    /\ gate[1].entry = "legacy" /\ gate[1].calls = 3 /\ gate[1].waits = 3
    /\ gate[2].entry = "Embed" /\ gate[2].pc = "call" /\ gate[2].waits = 1
    /\ gate[2].calls = 0

\* with no limiter set, a streaming call was made without any Wait
C34_WitnessUnset ==
    /\ ~RateLimiter
    /\ gate[1].entry = "StreamWithMeta" /\ gate[1].calls = 1 /\ gate[1].waits = 0


-----------------------------------------------------------------------------
(* The Debug switch around Builder.SendWithMeta: DebugSpec                 *)
(* A batch runs SendWithMeta of its builders in goroutines of their own;   *)
(* the switch is a package variable read and written without a lock.       *)

InFlight == 1..MaxInFlight

DebugInit ==
    /\ GateIdle
    /\ StatsIdle
    /\ AdapterIdle
    /\ RetryIdle
    /\ BatchIdle
    /\ CacheIdle
    /\ FallbackIdle
    /\ StreamIdle
    /\ LimiterIdle
    /\ BackoffIdle
    /\ Debug \in BOOLEAN
    /\ callerDebug = Debug
    /\ \E flags \in [InFlight -> BOOLEAN] :
         dreq = [r \in InFlight |-> [debug |-> flags[r], pc |-> "start", oldDebug |-> FALSE]]

\* oldDebug := Debug
SaveDebug(r) ==
    /\ dreq[r].pc = "start"
    /\ dreq' = [dreq EXCEPT ![r].oldDebug = Debug, ![r].pc = "saved"]
    /\ UNCHANGED <<Debug, callerDebug>>
    /\ UNCHANGED notDebug

\* if b.debug { Debug = true }; the request then runs
EnableDebug(r) ==
    /\ dreq[r].pc = "saved"
    /\ Debug' = IF dreq[r].debug THEN TRUE ELSE Debug
    /\ dreq' = [dreq EXCEPT ![r].pc = "running"]
    /\ UNCHANGED callerDebug
    /\ UNCHANGED notDebug

\* SendWithMeta returns: defer func() { Debug = oldDebug }()
RestoreDebug(r) ==
    /\ dreq[r].pc = "running"
    /\ Debug' = dreq[r].oldDebug
    /\ dreq' = [dreq EXCEPT ![r].pc = "done"]
    /\ UNCHANGED callerDebug
    /\ UNCHANGED notDebug

DebugNext ==
    \/ \E r \in InFlight : SaveDebug(r)
    \/ \E r \in InFlight : EnableDebug(r)
    \/ \E r \in InFlight : RestoreDebug(r)

DebugSpec == DebugInit /\ [][DebugNext]_vars

AllRequestsDone == \A r \in InFlight : dreq[r].pc = "done"

\* C35: once every Builder request has completed, the Debug switch holds
\* the value the caller last gave it.
C35_DebugSwitchRestored ==
    AllRequestsDone => Debug = callerDebug


-----------------------------------------------------------------------------
(* Cancellation of a Builder request (FallbackSpec) *)

\* C36: once the context of the request is cancelled, no step of
\* SendWithMeta starts a provider call, for the current model or a later
\* one, and the error of the result it returns is the cancellation error.
C36_NoProviderCallAfterCancel ==
    [][ /\ fctx # "live" => sendLog' = sendLog
        /\ (fctx # "live" /\ fpc # "done" /\ fpc' = "done") =>
              fmeta'.Error.ret.err \in CancelErrs ]_vars


-----------------------------------------------------------------------------
(* The submitted builders after Do (BatchSpec) *)

\* C37: when Do has returned, every submitted builder has the context the
\* caller gave it.
C37_BuildersUntouched ==
    bmain = "returned" => \A i \in Builders : bldrCtx[i] = "own"


-----------------------------------------------------------------------------
(* Termination of Do: BatchLiveSpec                                        *)
(* Every goroutine of Do that can take a step eventually takes one, and    *)
(* the caller's wg.Wait() returns when it can; nobody is bound to cancel   *)
(* the caller's context.                                                   *)

GoStep(i) ==
    /\ i \in Builders
    /\ GoCheckStopped(i) \/ GoAcquire(i) \/ GoAcquireCancelled(i) \/ GoRun(i)

BatchLiveSpec ==
    /\ BatchSpec
    /\ \A i \in 0..MaxOps : WF_vars(GoStep(i))
    /\ WF_vars(BatchReturn)

\* every provider call returns: no request waits for its scope to be done
EveryCallReturns == \A i \in Builders : kinds[i] # "slow"

\* C38: for every batch configuration, if every provider call returns then
\* Do returns.
C38_DoReturns ==
    EveryCallReturns => <>(bmain = "returned")

\* the part of C38 that holds: with at least one permit, Do returns
C38_DoReturnsWithPermits ==
    (EveryCallReturns /\ bconf.MaxConcurrency >= 1) => <>(bmain = "returned")


-----------------------------------------------------------------------------
(* Termination of Wait: LimiterLiveSpec                                    *)
(* One caller keeps calling Wait; the other callers take what tokens they  *)
(* take at time 0, and never after; time advances up to MaxTime.           *)

\* the caller that waits: the first of the callers
Waiter == CHOOSE c \in Callers : \A d \in Callers : c <= d

\* another caller calls Allow(), at time 0
RivalAllow(c) ==
    /\ c # Waiter
    /\ now = 0
    /\ Allow(c)

LimiterLiveNext ==
    \/ \E c \in Callers : RivalAllow(c)
    \/ WaitPass(Waiter)
    \/ Tick

LimiterLiveSpec ==
    /\ LimiterInit
    /\ [][LimiterLiveNext]_vars
    /\ WF_vars(WaitPass(Waiter))
    /\ WF_vars(Tick)

\* the caller sleeps inside Wait, and its sleep ends within the time modelled
WaitingInTime ==
    /\ callers[Waiter].st = "asleep"
    /\ now + WaitTime(limiter) <= MaxTime

\* C39: for every limiter built by NewLimiter or NewLimiterPerSecond with
\* positive arguments, a caller that waits inside Wait eventually returns
\* from it.
C39_WaitReturns ==
    WaitingInTime ~> (callers[Waiter].st = "idle")

\* the part of C39 that holds: when the bucket can hold a whole token, the
\* caller returns from Wait
C39_WaitReturnsWholeToken ==
    (WaitingInTime /\ limiter.capacity >= limiter.unit) ~> (callers[Waiter].st = "idle")


-----------------------------------------------------------------------------
(* Completeness of the streamed content (StreamSpec) *)

RECURSIVE SentDeltas(_, _)
\* the text deltas of all the lines of w, the last one included when the
\* body ended before its newline, in the order of the lines
SentDeltas(shape, w) ==
    IF w = <<>> THEN <<>>
    ELSE LET d == Decode(shape, Head(w).line)
         IN  (IF d.emit THEN <<d.text>> ELSE <<>>) \o SentDeltas(shape, Tail(w))

\* C40: when a streaming call returns, the callback has received every
\* text delta the vendor sent up to end-of-input or the terminal marker,
\* and the content of the response is their concatenation; a delta on a
\* last line that ends at end-of-input without a newline is among them.
C40_EveryDeltaDelivered ==
    spc = "returned" =>
        /\ chunks = SentDeltas(sshape, wire)
        /\ sresp.Content = Joined(SentDeltas(sshape, wire))


=============================================================================
